---- MODULE Spec2Model ----
(***************************************************************************)
(* VoiceFlow: the text synchronizer (src/src/utils/typer.py) and the       *)
(* global hotkey manager (src/src/hotkeys/hotkey_manager.py) as state      *)
(* machines.                                                               *)
(*                                                                         *)
(* Strings are sequences of one-character strings.  Threads that run a     *)
(* handler under HotkeyManager._lock are atomic actions; a threading.Timer *)
(* is a slot of `timers` that goes armed -> running (interval elapsed, the *)
(* thread is about to call its function and take the lock) -> free.        *)
(***************************************************************************)
EXTENDS Naturals, Integers, Sequences, FiniteSets, TLC

\* ---------------------------------------------------------------- bounds
\* Longest text handed to the synchronizer.
MaxLen == 4
\* The alphabet of the texts.
Chars == {"a", "b"}

Strings == UNION {[1..n -> Chars] : n \in 0..MaxLen}

Min(a, b) == IF a < b THEN a ELSE b

VARIABLES
  \* TextTyper
  current_content,  \* TextTyper.current_content
  lastOp,           \* the keystrokes the last TextTyper operation sent
  screen,           \* the text TextTyper put on screen and neither deleted
                    \* nor committed since
  lastPaste,        \* the last _paste_with_retry call followed step by step
  \* HotkeyManager
  pressed_keys,             \* HotkeyManager.pressed_keys
  long_press_timers,        \* combo -> slot of its timer, 0 when absent
  long_press_triggered,     \* HotkeyManager.long_press_triggered
  release_debounce_timers,  \* key -> slot of its timer, 0 when absent
  timers,                   \* the threading.Timer objects alive
  \* what the callbacks saw (observation only)
  fired,        \* combo -> phase -> number of callback invocations
  awaiting,     \* combo -> "held" or "ghost" after PRESS fired with the
                \* chord physically down or not, "idle" after RELEASE
  lpCalls,      \* circumstances of the LONG_PRESS invocations
  relCalls,     \* circumstances of the RELEASE invocations
  longHolds,    \* <<combo, hold>> pairs that received a LONG_PRESS
  relHolds,     \* <<combo, hold>> pairs that received a RELEASE
  raised,       \* the last callback invocation that raised, and their number
  \* the keyboard (environment)
  phys,         \* keys whose last event was 'down'
  holdId,       \* combo -> number of physical holds of it begun
  nEvents,      \* key events delivered
  scenario,     \* position in the clean press-hold-release, or "free"
  lastEvent,    \* the last key event delivered
  is_listening, \* HotkeyManager.is_listening
  cbMayRaise,   \* whether the registered callbacks may raise
  lock,         \* HotkeyManager._lock: 0 when free or held for one step,
                \* else the timer whose thread holds it
  listener,     \* where the caller of start_listening / stop_listening is
  \* HotkeyManager.add_hotkey
  callback_table,  \* HotkeyManager.hotkey_callbacks as add_hotkey builds it
  lastAdd,         \* the last add_hotkey call and the key it registered under
  chordsAdded,     \* the chords (sets of physical keys) registered so far
  nAdds,           \* add_hotkey calls made
  \* SherpaSenseVoiceASR
  vad,       \* the detector, or VadAbsent when the VAD asset is missing
  buffer,    \* SherpaSenseVoiceASR.buffer
  started,   \* SherpaSenseVoiceASR.started
  fedLog,    \* the chunks fed since the session was reset
  cbLog,     \* on_partial_result / on_final_result invocations since then
  lastStop,  \* what the stop_stream just made returned, and after what
  \* LLMOptimizer
  lastOpt,   \* the last optimize call: its circumstances and its result
  \* VoiceInputMethod
  default_mode,  \* VoiceInputMethod.default_mode
  current_task,  \* VoiceInputMethod.current_task, "none" for None
  is_running,    \* VoiceInputMethod.is_running
  audio_buffer,  \* VoiceInputMethod.audio_buffer
  proc,          \* the processing thread: where it is, the chunk it holds
  call,          \* the hotkey callback running: which one, where it is
  \* AudioRecorder
  is_recording,  \* AudioRecorder.is_recording (the input stream is open)
  audio_queue,   \* AudioRecorder.audio_queue
  \* what happened in the capture session (observation only)
  session,   \* its task, the chunks captured and pulled, the engine calls
  lastEnd,   \* what the last stop_any_task did to end its session
  nCalls,    \* hotkey callbacks invoked
  nThreads,  \* processing threads alive
  lastCall   \* the last hotkey callback invoked, and whether its guard
             \* made it return at once

typerVars == <<current_content, lastOp, screen, lastPaste>>
hkProgVars == <<pressed_keys, long_press_timers, long_press_triggered,
                release_debounce_timers, timers>>
hkObsVars == <<fired, awaiting, lpCalls, relCalls, longHolds, relHolds,
               raised>>
hkEnvVars == <<phys, holdId, nEvents, scenario, lastEvent>>
hkCtlVars == <<is_listening, cbMayRaise, lock, listener>>
hkVars == <<hkProgVars, hkObsVars, hkEnvVars, hkCtlVars>>
regVars == <<callback_table, lastAdd, chordsAdded, nAdds>>
\* What a TextTyper step, and what a hotkey step, leaves alone.
asrVars == <<vad, buffer, started, fedLog, cbLog, lastStop>>
optVars == <<lastOpt>>
orchVars == <<default_mode, current_task, is_running, audio_buffer, proc,
              call>>
recVars == <<is_recording, audio_queue>>
orchObsVars == <<session, lastEnd, nCalls, nThreads, lastCall>>
appVars == <<orchVars, recVars, orchObsVars>>
nonTyperVars == <<hkVars, regVars, asrVars, optVars, appVars>>
nonHkVars == <<typerVars, regVars, asrVars, optVars, appVars>>
nonAsrVars == <<typerVars, hkVars, regVars, optVars, appVars>>
nonOptVars == <<typerVars, hkVars, regVars, asrVars, appVars>>
vars == <<typerVars, hkVars, regVars, asrVars, optVars, appVars>>

\* ------------------------------------------------------------- TextTyper

\* The clipboard paste is tried `retries` times.
retries == 3

\* _get_common_prefix_len: scan i = 0..min_len-1, return the first i where
\* the strings differ, min_len when none does (positions are 1-based here).
RECURSIVE PrefixScan(_, _, _, _)
PrefixScan(str1, str2, i, min_len) ==
  IF i > min_len THEN min_len
  ELSE IF str1[i] # str2[i] THEN i - 1
  ELSE PrefixScan(str1, str2, i + 1, min_len)

\* The scan without the comparison of line 23.
GetCommonPrefixLen_NoCompare(str1, str2) == Min(Len(str1), Len(str2))

GetCommonPrefixLen(str1, str2) ==
  PrefixScan(str1, str2, 1, Min(Len(str1), Len(str2)))

\* new_text[common_len:]
Suffix(s, n) == SubSeq(s, n + 1, Len(s))

\* _paste_with_retry: `fails` clipboard attempts raise before one succeeds;
\* after `retries` failures the text is typed by keyboard.write.  Either way
\* the text is injected once.
PasteWithRetry(text, fails) ==
  [attempts |-> Min(fails + 1, retries),
   wrote    |-> fails >= retries,
   injected |-> text]

\* The keystrokes of one operation: `bs` backspaces, then the text `ins`,
\* and the content it leaves.
Keys0(content) == [content |-> content, bs |-> 0, ins |-> <<>>]

\* clear_temp without the reset of line 102.
ClearTempFn_NoReset(content) ==
  [content |-> content, bs |-> Len(content), ins |-> <<>>]

\* clear_temp
ClearTempFn(content) ==
  IF Len(content) > 0
  THEN [content |-> <<>>, bs |-> Len(content), ins |-> <<>>]
  ELSE Keys0(content)

\* show_status
ShowStatusFn(content, text, fails) ==
  LET c == ClearTempFn(content)
  IN  [content |-> text, bs |-> c.bs,
       ins |-> PasteWithRetry(text, fails).injected]

\* update_stream without the assignment of line 90.
UpdateStreamFn_NoStore(content, new_text, fails) ==
  IF new_text = content THEN Keys0(content)
  ELSE LET common_len == GetCommonPrefixLen(content, new_text)
       IN  [content |-> content,
            bs      |-> Len(content) - common_len,
            ins     |-> Suffix(new_text, common_len)]

\* update_stream
UpdateStreamFn(content, new_text, fails) ==
  IF new_text = content THEN Keys0(content)
  ELSE LET common_len   == GetCommonPrefixLen(content, new_text)
           delete_count == Len(content) - common_len
           input_text   == Suffix(new_text, common_len)
       IN  [content |-> new_text,
            bs      |-> IF delete_count > 0 THEN delete_count ELSE 0,
            ins     |-> IF input_text # <<>>
                        THEN PasteWithRetry(input_text, fails).injected
                        ELSE <<>>]

\* commit_text without the reset of line 95.
CommitTextFn_NoReset(content, text, fails) ==
  UpdateStreamFn(content, text, fails)

\* commit_text
CommitTextFn(content, text, fails) ==
  LET u == UpdateStreamFn(content, text, fails)
  IN  [u EXCEPT !.content = <<>>]

\* keyboard.send('backspace') n times, then the injection of ins, on the
\* text TextTyper has on screen.
Keystrokes(scr, n, ins) ==
  SubSeq(scr, 1, Len(scr) - Min(n, Len(scr))) \o ins

\* One TextTyper call on t = [content, screen, last]: r is what it did.  A
\* committed text is no longer TextTyper's.
After(t, op, arg, r) ==
  [content |-> r.content,
   screen |-> IF op = "commit_text" THEN <<>>
              ELSE Keystrokes(t.screen, r.bs, r.ins),
   last |-> [op |-> op, arg |-> arg, prev |-> t.content,
             bs |-> r.bs, ins |-> r.ins,
             prevOp |-> t.last.op, prevText |-> t.last.arg # <<>>,
             repeat |-> t.last.op = op /\ t.last.arg = arg]]

Typer == [content |-> current_content, screen |-> screen, last |-> lastOp]

SetTyper(t) ==
  /\ current_content' = t.content
  /\ screen' = t.screen
  /\ lastOp' = t.last
  /\ UNCHANGED lastPaste

Did(op, arg, r) ==
  /\ SetTyper(After(Typer, op, arg, r))
  /\ UNCHANGED nonTyperVars

show_status(text) ==
  \E fails \in 0..retries :
    Did("show_status", text, ShowStatusFn(current_content, text, fails))

update_stream(new_text) ==
  \E fails \in 0..retries :
    Did("update_stream", new_text,
        UpdateStreamFn(current_content, new_text, fails))

commit_text(text) ==
  \E fails \in 0..retries :
    Did("commit_text", text, CommitTextFn(current_content, text, fails))

clear_temp ==
  Did("clear_temp", <<>>, ClearTempFn(current_content))

\* _paste_with_retry when every paste attempt failed and keyboard.write
\* raised after typing the first j characters of the text.
PasteWithRetryRaise(text, j) ==
  [attempts |-> retries, wrote |-> TRUE, injected |-> SubSeq(text, 1, j)]

\* update_stream ended by the exception of _paste_with_retry: line 90 is
\* not reached.
UpdateStreamRaise(content, new_text, j) ==
  LET common_len == GetCommonPrefixLen(content, new_text)
      delete_count == Len(content) - common_len
      input_text == Suffix(new_text, common_len)
  IN  [content |-> content,
       bs      |-> IF delete_count > 0 THEN delete_count ELSE 0,
       ins     |-> PasteWithRetryRaise(input_text, j).injected]

\* show_status ended by the exception: clear_temp was done, line 70 is not
\* reached.
ShowStatusRaise(content, text, j) ==
  [content |-> <<>>,
   bs      |-> ClearTempFn(content).bs,
   ins     |-> PasteWithRetryRaise(text, j).injected]

\* The operations ended by an exception of the injection.  update_stream
\* and commit_text inject only a non-empty input_text.  No further failure
\* is considered once MaxLen characters are on screen.
update_stream_raise(new_text) ==
  \E j \in 0..Len(new_text) :
    /\ Len(screen) < MaxLen
    /\ new_text # current_content
    /\ j < Len(Suffix(new_text, GetCommonPrefixLen(current_content, new_text)))
    /\ Did("update_stream_raise", new_text,
           UpdateStreamRaise(current_content, new_text, j))

commit_text_raise(text) ==
  \E j \in 0..Len(text) :
    /\ Len(screen) < MaxLen
    /\ text # current_content
    /\ j < Len(Suffix(text, GetCommonPrefixLen(current_content, text)))
    /\ Did("commit_text_raise", text,
           UpdateStreamRaise(current_content, text, j))

show_status_raise(text) ==
  \E j \in 0..Len(text) :
    /\ Len(screen) < MaxLen
    /\ j < Len(text) \/ text = <<>>
    /\ Did("show_status_raise", text,
           ShowStatusRaise(current_content, text, j))

\* The texts handed to TextTyper where its injection may fail.
MaxShort == 2
ShortStrings == {t \in Strings : Len(t) <= MaxShort}

\* What one clipboard attempt of lines 30-60 does: it returns, or raises
\* and is logged.  keyboard.write (line 64) types `typed` characters of
\* the text; fewer than all of them when it raises.
AttemptOutcomes == {"ok", "raise"}

\* _paste_with_retry, lines 29-60: attempt i of the loop, the attempts
\* before it having raised.  `did` is the list of injections made.
RECURSIVE PasteLoop(_, _, _, _)
PasteLoop(text, outcomes, typed, i) ==
  IF i > retries
  THEN [attempts |-> retries, writes |-> 1,
        did |-> <<SubSeq(text, 1, typed)>>, raised |-> typed < Len(text)]
  ELSE IF outcomes[i] = "ok"
  THEN [attempts |-> i, writes |-> 0, did |-> <<text>>, raised |-> FALSE]
  ELSE PasteLoop(text, outcomes, typed, i + 1)

\* _paste_with_retry(text)
PasteWithRetryRun(text, outcomes, typed) == PasteLoop(text, outcomes, typed, 1)

NoPaste == [called |-> FALSE, text |-> <<>>, outcomes |-> <<>>,
            ret |-> [attempts |-> 0, writes |-> 0, did |-> <<>>,
                     raised |-> FALSE]]

paste_with_retry ==
  \E text \in Strings, outcomes \in [1..retries -> AttemptOutcomes],
     typed \in 0..MaxLen :
    /\ typed <= Len(text)
    /\ lastPaste' = [called |-> TRUE, text |-> text, outcomes |-> outcomes,
                     ret |-> PasteWithRetryRun(text, outcomes, typed)]
    /\ UNCHANGED <<current_content, lastOp, screen>>
    /\ UNCHANGED nonTyperVars

TyperInit ==
  /\ lastPaste = NoPaste
  /\ current_content = <<>>
  /\ screen = <<>>
  /\ lastOp = [op |-> "init", arg |-> <<>>, prev |-> <<>>, bs |-> 0,
               ins |-> <<>>, prevOp |-> "init", prevText |-> FALSE,
               repeat |-> FALSE]

\* --------------------------------------------------------- HotkeyManager

\* Live threading.Timer objects at any time.
MaxTimers == 3
\* Key events the keyboard delivers in one run of the free keyboard.
MaxEvents == 6

Keys == {"ctrl", "f2", "f3"}

\* The order Python's sorted() gives these key names.
KeyRank(k) == CASE k = "ctrl" -> 1 [] k = "f2" -> 2 [] k = "f3" -> 3

Range(q) == {q[i] : i \in DOMAIN q}

\* '+'.join(sorted(keys)): the combo is kept as the sorted sequence of its
\* key names, which the join maps one-to-one to the string.
RECURSIVE SortedJoin(_)
SortedJoin(S) ==
  IF S = {} THEN <<>>
  ELSE LET m == CHOOSE x \in S : \A y \in S : KeyRank(x) <= KeyRank(y)
       IN  <<m>> \o SortedJoin(S \ {m})

\* _get_current_combo
GetCurrentCombo(pressed) == SortedJoin(pressed)

Phases == {"press", "long_press", "release"}

\* hotkey_callbacks after registration: the two chords of main.py
\* (key_std, key_llm), each with a callback for every phase.
key_std == SortedJoin({"ctrl", "f2"})
key_llm == SortedJoin({"ctrl", "f3"})
hotkey_callbacks == (key_std :> Phases) @@ (key_llm :> Phases)
Combos == DOMAIN hotkey_callbacks

Slots == 1..MaxTimers
NoTimer == [kind |-> "none", st |-> "free", key |-> "-", combo |-> <<>>,
            hold |-> 0, inHold |-> FALSE]

\* threading.Timer.cancel(): stops a timer whose interval has not elapsed;
\* one whose thread already left the wait runs its function all the same.
Cancel(tms, i) ==
  IF i # 0 /\ tms[i].st = "armed" THEN [tms EXCEPT ![i] = NoTimer] ELSE tms

FreeSlot(tms) ==
  IF \E i \in Slots : tms[i].kind = "none"
  THEN CHOOSE i \in Slots : /\ tms[i].kind = "none"
                            /\ \A j \in Slots : tms[j].kind = "none" => i <= j
  ELSE 0

Invoke(f, combo, phase) ==
  [f EXCEPT ![combo][phase] = f[combo][phase] + 1]


\* _handle_press, lines 138-142: the key is waiting for its release to be
\* confirmed; the release is called off and nothing else happens.
CancelPendingRelease(key_name) ==
  /\ timers' = Cancel(timers, release_debounce_timers[key_name])
  /\ release_debounce_timers' =
       [release_debounce_timers EXCEPT ![key_name] = 0]
  /\ UNCHANGED <<pressed_keys, long_press_timers, long_press_triggered>>
  /\ UNCHANGED hkObsVars

\* A callback invoked inside "try: ... except Exception as e: log" (lines
\* 155-156, 209-210, 224-229): its exception goes no further.
Escapes_NoTry(raises) == raises

Escapes(raises) == FALSE

NoRaise == [n |-> 0, phase |-> "none", key |-> "-", slot |-> 0]
\* Callback invocations that raise in one run.
MaxRaises == 2
Raising == IF cbMayRaise /\ raised.n < MaxRaises THEN BOOLEAN ELSE {FALSE}

\* _handle_press, lines 148-168, a key that was not down: what becomes of
\* pressed_keys and the timers when the PRESS callback raises or returns.
PressNewKeyProg(key_name, raises) ==
  LET current_combo == GetCurrentCombo(pressed_keys \cup {key_name})
  IN  /\ pressed_keys' = pressed_keys \cup {key_name}
      /\ UNCHANGED release_debounce_timers
      /\ IF current_combo \in Combos
         THEN LET callbacks == hotkey_callbacks[current_combo]
                  stopped   == Cancel(timers, long_press_timers[current_combo])
                  slot      == FreeSlot(stopped)
              IN  IF "press" \in callbacks /\ Escapes(raises)
                  THEN UNCHANGED <<timers, long_press_timers>>
                  ELSE IF "long_press" \in callbacks
                  THEN /\ slot # 0
                       /\ timers' = [stopped EXCEPT ![slot] =
                            [kind |-> "long", st |-> "armed", key |-> "-",
                             combo |-> current_combo,
                             hold |-> holdId'[current_combo],
                             inHold |-> FALSE]]
                       /\ long_press_timers' =
                            [long_press_timers EXCEPT ![current_combo] = slot]
                  ELSE UNCHANGED <<timers, long_press_timers>>
         ELSE UNCHANGED <<timers, long_press_timers>>

\* _handle_press, lines 148-168: a key that was not down.
PressNewKey(key_name) ==
  \E raises \in Raising :
    LET current_combo == GetCurrentCombo(pressed_keys \cup {key_name})
        invoked == /\ current_combo \in Combos
                   /\ "press" \in hotkey_callbacks[current_combo]
    IN  /\ raises => invoked
        /\ PressNewKeyProg(key_name, raises)
        /\ UNCHANGED <<long_press_triggered, lpCalls, relCalls, longHolds,
                       relHolds>>
        /\ fired' = IF invoked THEN Invoke(fired, current_combo, "press")
                    ELSE fired
        /\ awaiting' = IF invoked
                       THEN [awaiting EXCEPT ![current_combo] =
                               IF Range(current_combo) \subseteq phys'
                               THEN "held" ELSE "ghost"]
                       ELSE awaiting
        /\ raised' = IF raises
                     THEN [n |-> raised.n + 1, phase |-> "press",
                           key |-> key_name, slot |-> 0]
                     ELSE raised

\* _handle_press without the repeat check of lines 145-146.
HandlePress_NoRepeatCheck(key_name) ==
  IF release_debounce_timers[key_name] # 0
  THEN CancelPendingRelease(key_name)
  ELSE PressNewKey(key_name)

\* _handle_press without the debounce branch of lines 138-142.
HandlePress_NoDebounce(key_name) ==
  IF key_name \in pressed_keys
  THEN UNCHANGED <<hkProgVars, hkObsVars>>
  ELSE PressNewKey(key_name)

\* _handle_press
HandlePress(key_name) ==
  IF release_debounce_timers[key_name] # 0
  THEN CancelPendingRelease(key_name)
  ELSE IF key_name \in pressed_keys
  THEN UNCHANGED <<hkProgVars, hkObsVars>>
  ELSE PressNewKey(key_name)

\* _handle_release
HandleRelease(key_name) ==
  IF key_name \notin pressed_keys
  THEN UNCHANGED <<hkProgVars, hkObsVars>>
  ELSE LET prev_combo == GetCurrentCombo(pressed_keys)
           stopped    == Cancel(timers, release_debounce_timers[key_name])
           slot       == FreeSlot(stopped)
       IN  /\ slot # 0
           /\ timers' = [stopped EXCEPT ![slot] =
                [kind |-> "release", st |-> "armed", key |-> key_name,
                 combo |-> prev_combo,
                 hold |-> IF prev_combo \in Combos THEN holdId[prev_combo]
                          ELSE 0,
                 inHold |-> FALSE]]
           /\ release_debounce_timers' =
                [release_debounce_timers EXCEPT ![key_name] = slot]
           /\ UNCHANGED <<pressed_keys, long_press_timers,
                          long_press_triggered>>
           /\ UNCHANGED hkObsVars

\* _on_keyboard_event: under the lock, 'down' goes to _handle_press and
\* 'up' to _handle_release.
OnKeyboardEvent(event_type, key_name) ==
  IF event_type = "down" THEN HandlePress(key_name)
  ELSE HandleRelease(key_name)

\* _finalize_release, lines 191-207: pressed_keys and the timers are
\* settled before the RELEASE callback is invoked.
FinalizeReleaseProg(i) ==
  LET key_name   == timers[i].key
      prev_combo == timers[i].combo
      ended      == [timers EXCEPT ![i] = NoTimer]
  IN  /\ release_debounce_timers' =
           [release_debounce_timers EXCEPT ![key_name] = 0]
      /\ IF key_name \in pressed_keys
         THEN /\ pressed_keys' = pressed_keys \ {key_name}
              /\ IF prev_combo \in Combos
                 THEN /\ timers' = Cancel(ended, long_press_timers[prev_combo])
                      /\ long_press_timers' =
                           [long_press_timers EXCEPT ![prev_combo] = 0]
                 ELSE /\ timers' = ended
                      /\ UNCHANGED long_press_timers
         ELSE /\ timers' = ended
              /\ UNCHANGED <<pressed_keys, long_press_timers>>

\* _finalize_release, run by the thread of timer i once it has the lock.
FinalizeRelease(i) ==
  \E raises \in Raising :
    LET key_name   == timers[i].key
        prev_combo == timers[i].combo
        invoked == /\ key_name \in pressed_keys
                   /\ prev_combo \in Combos
                   /\ "release" \in hotkey_callbacks[prev_combo]
    IN  /\ timers[i].kind = "release"
        /\ timers[i].st = "running"
        /\ raises => invoked
        /\ FinalizeReleaseProg(i)
        /\ long_press_triggered' =
             IF key_name \in pressed_keys /\ ~(invoked /\ Escapes(raises))
             THEN long_press_triggered \ {prev_combo}
             ELSE long_press_triggered
        /\ UNCHANGED <<lpCalls, longHolds>>
        /\ IF invoked
           THEN /\ fired' = Invoke(fired, prev_combo, "release")
                /\ relCalls' = relCalls \cup
                     {[held |-> Range(prev_combo) \subseteq phys]}
                /\ relHolds' = relHolds \cup {<<prev_combo, timers[i].hold>>}
                /\ awaiting' = [awaiting EXCEPT ![prev_combo] = "idle"]
           ELSE UNCHANGED <<fired, relCalls, relHolds, awaiting>>
        /\ raised' = IF raises
                     THEN [n |-> raised.n + 1, phase |-> "release",
                           key |-> key_name, slot |-> i]
                     ELSE raised

\* _trigger_long_press, lines 220-231: what becomes of pressed_keys and the
\* timers when the LONG_PRESS callback raises or returns.
TriggerLongPressProg(i, raises) ==
  LET combo   == timers[i].combo
      current == GetCurrentCombo(pressed_keys)
  IN  /\ long_press_timers' =
           IF current = combo /\ Escapes(raises)
           THEN long_press_timers
           ELSE [long_press_timers EXCEPT ![combo] = 0]
      /\ timers' = [timers EXCEPT ![i] = NoTimer]
      /\ UNCHANGED <<pressed_keys, release_debounce_timers>>

\* _trigger_long_press, run by the thread of timer i once it has the lock.
TriggerLongPress(i) ==
  \E raises \in Raising :
    LET combo   == timers[i].combo
        current == GetCurrentCombo(pressed_keys)
    IN  /\ timers[i].kind = "long"
        /\ timers[i].st = "running"
        /\ raises => current = combo
        /\ TriggerLongPressProg(i, raises)
        /\ IF current = combo
           THEN /\ fired' = Invoke(fired, combo, "long_press")
                /\ long_press_triggered' =
                     IF raises THEN long_press_triggered
                     ELSE long_press_triggered \cup {combo}
                /\ lpCalls' = lpCalls \cup
                     {[inHold   |-> timers[i].inHold,
                       sameHold |-> /\ Range(combo) \subseteq phys
                                    /\ holdId[combo] = timers[i].hold,
                       again    |-> <<combo, holdId[combo]>> \in longHolds,
                       afterRelease |->
                         <<combo, timers[i].hold>> \in relHolds]}
                /\ longHolds' = longHolds \cup {<<combo, holdId[combo]>>}
           ELSE UNCHANGED <<fired, long_press_triggered, lpCalls, longHolds>>
        /\ UNCHANGED <<relCalls, relHolds, awaiting>>
        /\ raised' = IF raises
                     THEN [n |-> raised.n + 1, phase |-> "long_press",
                           key |-> "-", slot |-> i]
                     ELSE raised

\* stop_listening: the hook is removed; under the lock every timer the
\* tables hold is cancelled and the tables are cleared.
StopListening ==
  LET held == {long_press_timers[c] : c \in Combos}
                \cup {release_debounce_timers[k] : k \in Keys}
  IN  /\ is_listening
      /\ is_listening' = FALSE
      /\ timers' = [i \in Slots |->
                      IF i \in held /\ timers[i].st = "armed"
                      THEN NoTimer ELSE timers[i]]
      /\ long_press_timers' = [c \in Combos |-> 0]
      /\ release_debounce_timers' = [k \in Keys |-> 0]
      /\ UNCHANGED <<pressed_keys, long_press_triggered, cbMayRaise, lock,
                     listener>>
      /\ UNCHANGED <<hkObsVars, hkEnvVars, nonHkVars>>

\* threading.Timer.run: the interval of timer i has elapsed and it was not
\* cancelled; its thread goes on to call the function.
TimerElapse(i) ==
  /\ timers[i].st = "armed"
  /\ timers' = [timers EXCEPT ![i].st = "running",
                  ![i].inHold = /\ timers[i].kind = "long"
                                /\ Range(timers[i].combo) \subseteq phys
                                /\ holdId[timers[i].combo] = timers[i].hold]
  /\ UNCHANGED <<pressed_keys, long_press_timers, long_press_triggered,
                 release_debounce_timers>>
  /\ UNCHANGED hkObsVars

\* ------------------------------------------------------------ the keyboard

\* A key goes down: a new hold begins of every chord that is now fully down.
KeyDown(k) ==
  /\ is_listening
  /\ UNCHANGED hkCtlVars
  /\ k \notin phys
  /\ phys' = phys \cup {k}
  /\ holdId' = [c \in Combos |->
                  IF k \in Range(c) /\ Range(c) \subseteq phys \cup {k}
                  THEN holdId[c] + 1 ELSE holdId[c]]
  /\ lastEvent' = [type |-> "down", key |-> k,
                   inWindow |-> /\ release_debounce_timers[k] # 0
                                /\ timers[release_debounce_timers[k]].st = "armed"]
  /\ OnKeyboardEvent("down", k)
  /\ UNCHANGED nonHkVars

\* The OS repeats the 'down' of a key that is held.
AutoRepeat(k) ==
  /\ is_listening
  /\ UNCHANGED hkCtlVars
  /\ k \in phys
  /\ lastEvent' = [type |-> "repeat", key |-> k, inWindow |-> FALSE]
  /\ UNCHANGED <<phys, holdId>>
  /\ OnKeyboardEvent("down", k)
  /\ UNCHANGED nonHkVars

KeyUp(k) ==
  /\ is_listening
  /\ UNCHANGED hkCtlVars
  /\ k \in phys
  /\ phys' = phys \ {k}
  /\ lastEvent' = [type |-> "up", key |-> k, inWindow |-> FALSE]
  /\ UNCHANGED holdId
  /\ OnKeyboardEvent("up", k)
  /\ UNCHANGED nonHkVars

HotkeyInit ==
  /\ pressed_keys = {}
  /\ long_press_timers = [c \in Combos |-> 0]
  /\ long_press_triggered = {}
  /\ release_debounce_timers = [k \in Keys |-> 0]
  /\ timers = [i \in Slots |-> NoTimer]
  /\ fired = [c \in Combos |-> [p \in Phases |-> 0]]
  /\ awaiting = [c \in Combos |-> "idle"]
  /\ lpCalls = {}
  /\ relCalls = {}
  /\ longHolds = {}
  /\ relHolds = {}
  /\ raised = NoRaise
  /\ is_listening = TRUE
  /\ lock = 0
  /\ listener = "idle"
  /\ phys = {}
  /\ holdId = [c \in Combos |-> 0]
  /\ nEvents = 0
  /\ lastEvent = [type |-> "none", key |-> "-", inWindow |-> FALSE]

\* Timer threads, in any interleaving with the hook thread.
ElapseStep == \E i \in Slots :
  TimerElapse(i) /\ UNCHANGED <<hkEnvVars, hkCtlVars, nonHkVars>>
FinalizeStep == \E i \in Slots :
  FinalizeRelease(i) /\ UNCHANGED <<hkEnvVars, hkCtlVars, nonHkVars>>
LongPressStep == \E i \in Slots :
  TriggerLongPress(i) /\ UNCHANGED <<hkEnvVars, hkCtlVars, nonHkVars>>

\* The free keyboard: any key may go down, repeat or go up, MaxEvents times.
FreeDown == \E k \in Keys :
  /\ nEvents < MaxEvents /\ nEvents' = nEvents + 1 /\ UNCHANGED scenario
  /\ KeyDown(k)
FreeRepeat == \E k \in Keys :
  /\ nEvents < MaxEvents /\ nEvents' = nEvents + 1 /\ UNCHANGED scenario
  /\ AutoRepeat(k)
FreeUp == \E k \in Keys :
  /\ nEvents < MaxEvents /\ nEvents' = nEvents + 1 /\ UNCHANGED scenario
  /\ KeyUp(k)

\* One clean press-hold-release of the chord key_std: its keys go down, the
\* held keys may repeat (while fewer than MaxEvents events were delivered),
\* its keys go up; no other key is touched.
CleanDown == \E k \in Range(key_std) :
  /\ scenario = "pressing"
  /\ KeyDown(k)
  /\ scenario' = IF phys' = Range(key_std) THEN "holding" ELSE "pressing"
  /\ nEvents' = nEvents + 1
CleanRepeat == \E k \in Range(key_std) :
  /\ scenario \in {"pressing", "holding", "releasing"}
  /\ nEvents < MaxEvents
  /\ AutoRepeat(k)
  /\ nEvents' = nEvents + 1
  /\ UNCHANGED scenario
CleanUp == \E k \in Range(key_std) :
  /\ scenario \in {"holding", "releasing"}
  /\ KeyUp(k)
  /\ scenario' = IF phys' = {} THEN "released" ELSE "releasing"
  /\ nEvents' = nEvents + 1

\* ---------------------------------------------- hotkey registration
\* A hotkey string is a sequence of one-character strings.  The characters
\* in their code-point order: str.lower() maps UpperCase[i] to LowerCase[i],
\* and sorted() compares strings character by character in this order.
UpperCase == <<"A", "B", "C", "D", "E", "F", "G", "H", "I", "J", "K", "L", "M",
              "N", "O", "P", "Q", "R", "S", "T", "U", "V", "W", "X", "Y", "Z">>
LowerCase == <<"a", "b", "c", "d", "e", "f", "g", "h", "i", "j", "k", "l", "m",
              "n", "o", "p", "q", "r", "s", "t", "u", "v", "w", "x", "y", "z">>
CharOrder == <<" ", "+", "2", "3">> \o UpperCase \o LowerCase

CodePoint(c) == CHOOSE i \in DOMAIN CharOrder : CharOrder[i] = c

\* str.lower()
LowerChar(c) ==
  IF \E i \in DOMAIN UpperCase : UpperCase[i] = c
  THEN LowerCase[CHOOSE i \in DOMAIN UpperCase : UpperCase[i] = c]
  ELSE c
StrLower(s) == [i \in DOMAIN s |-> LowerChar(s[i])]

\* str.replace(' ', '')
RemoveSpaces(s) == SelectSeq(s, LAMBDA c : c # " ")

\* str.split('+'): the parts between the plus signs, empty parts included.
RECURSIVE SplitPlus(_, _)
SplitPlus(s, cur) ==
  IF s = <<>> THEN <<cur>>
  ELSE IF Head(s) = "+" THEN <<cur>> \o SplitPlus(Tail(s), <<>>)
  ELSE SplitPlus(Tail(s), Append(cur, Head(s)))

\* The dict `replacements` of _normalize_hotkey, as <<key, value>> pairs.
replacements == {
  <<<<"l", "c", "t", "r", "l">>,
    <<"c", "t", "r", "l">>>>,
  <<<<"r", "c", "t", "r", "l">>,
    <<"c", "t", "r", "l">>>>,
  <<<<"l", "e", "f", "t", " ", "c", "t", "r", "l">>,
    <<"c", "t", "r", "l">>>>,
  <<<<"r", "i", "g", "h", "t", " ", "c", "t", "r", "l">>,
    <<"c", "t", "r", "l">>>>,
  <<<<"c", "o", "n", "t", "r", "o", "l">>,
    <<"c", "t", "r", "l">>>>,
  <<<<"l", "a", "l", "t">>,
    <<"a", "l", "t">>>>,
  <<<<"r", "a", "l", "t">>,
    <<"a", "l", "t">>>>,
  <<<<"l", "e", "f", "t", " ", "a", "l", "t">>,
    <<"a", "l", "t">>>>,
  <<<<"r", "i", "g", "h", "t", " ", "a", "l", "t">>,
    <<"a", "l", "t">>>>,
  <<<<"o", "p", "t", "i", "o", "n">>,
    <<"a", "l", "t">>>>,
  <<<<"l", "s", "h", "i", "f", "t">>,
    <<"s", "h", "i", "f", "t">>>>,
  <<<<"r", "s", "h", "i", "f", "t">>,
    <<"s", "h", "i", "f", "t">>>>,
  <<<<"l", "e", "f", "t", " ", "s", "h", "i", "f", "t">>,
    <<"s", "h", "i", "f", "t">>>>,
  <<<<"r", "i", "g", "h", "t", " ", "s", "h", "i", "f", "t">>,
    <<"s", "h", "i", "f", "t">>>>,
  <<<<"l", "w", "i", "n">>,
    <<"w", "i", "n", "d", "o", "w", "s">>>>,
  <<<<"r", "w", "i", "n">>,
    <<"w", "i", "n", "d", "o", "w", "s">>>>,
  <<<<"l", "e", "f", "t", " ", "w", "i", "n", "d", "o", "w", "s">>,
    <<"w", "i", "n", "d", "o", "w", "s">>>>,
  <<<<"r", "i", "g", "h", "t", " ", "w", "i", "n", "d", "o", "w", "s">>,
    <<"w", "i", "n", "d", "o", "w", "s">>>>,
  <<<<"w", "i", "n">>,
    <<"w", "i", "n", "d", "o", "w", "s">>>>,
  <<<<"e", "s", "c">>,
    <<"e", "s", "c">>>>,
  <<<<"e", "s", "c", "a", "p", "e">>,
    <<"e", "s", "c">>>>}

\* replacements.get(p, p)
ReplacementsGet(p) ==
  IF \E e \in replacements : e[1] = p
  THEN (CHOOSE e \in replacements : e[1] = p)[2]
  ELSE p

\* The order of Python strings.
RECURSIVE StrLess(_, _)
StrLess(a, b) ==
  IF a = <<>> THEN b # <<>>
  ELSE IF b = <<>> THEN FALSE
  ELSE IF Head(a) = Head(b) THEN StrLess(Tail(a), Tail(b))
  ELSE CodePoint(Head(a)) < CodePoint(Head(b))

\* sorted(parts)
RECURSIVE InsertSorted(_, _)
InsertSorted(x, l) ==
  IF l = <<>> THEN <<x>>
  ELSE IF StrLess(x, Head(l)) THEN <<x>> \o l
  ELSE <<Head(l)>> \o InsertSorted(x, Tail(l))
RECURSIVE Sorted(_)
Sorted(l) == IF l = <<>> THEN <<>> ELSE InsertSorted(Head(l), Sorted(Tail(l)))

\* '+'.join(parts)
RECURSIVE JoinPlus(_)
JoinPlus(parts) ==
  IF parts = <<>> THEN <<>>
  ELSE IF Len(parts) = 1 THEN parts[1]
  ELSE parts[1] \o <<"+">> \o JoinPlus(Tail(parts))

\* _normalize_hotkey
NormalizeHotkey(hotkey) ==
  LET parts == SplitPlus(RemoveSpaces(StrLower(hotkey)), <<>>)
      normalized_parts == [i \in DOMAIN parts |-> ReplacementsGet(parts[i])]
  IN  JoinPlus(Sorted(normalized_parts))

\* The two chords main() registers, and spellings of them that differ from
\* the configured default in case, key order, spacing or modifier alias.
Spellings == {
  [chord |-> {"ctrl", "f2"}, hotkey |-> <<"c", "t", "r", "l", "+", "f", "2">>],
  [chord |-> {"ctrl", "f2"}, hotkey |-> <<"C", "t", "r", "l", "+", "F", "2">>],
  [chord |-> {"ctrl", "f2"}, hotkey |-> <<"f", "2", "+", "c", "t", "r", "l">>],
  [chord |-> {"ctrl", "f2"}, hotkey |-> <<"c", "t", "r", "l", " ", "+", " ", "f", "2">>],
  [chord |-> {"ctrl", "f2"}, hotkey |-> <<"l", "c", "t", "r", "l", "+", "f", "2">>],
  [chord |-> {"ctrl", "f2"}, hotkey |-> <<"L", "e", "f", "t", " ", "C", "t", "r", "l", "+", "F", "2">>],
  [chord |-> {"ctrl", "f3"}, hotkey |-> <<"c", "t", "r", "l", "+", "f", "3">>],
  [chord |-> {"ctrl", "f3"}, hotkey |-> <<"F", "3", "+", "C", "o", "n", "t", "r", "o", "l">>]}

\* The spelling main.py configures by default for a chord.
DefaultSpelling(chord) ==
  IF chord = {"ctrl", "f2"} THEN <<"c", "t", "r", "l", "+", "f", "2">>
  ELSE <<"c", "t", "r", "l", "+", "f", "3">>

Callbacks == {"start_recording_task", "stop_any_task"}
MaxAdds == 3

\* add_hotkey
add_hotkey(sp, callback, hotkey_type) ==
  LET norm_key == NormalizeHotkey(sp.hotkey)
      old == IF norm_key \in DOMAIN callback_table
             THEN callback_table[norm_key] ELSE <<>>
  IN  /\ nAdds < MaxAdds
      /\ nAdds' = nAdds + 1
      /\ callback_table' =
           [k \in DOMAIN callback_table \cup {norm_key} |->
              IF k = norm_key THEN (hotkey_type :> callback) @@ old
              ELSE callback_table[k]]
      /\ lastAdd' = [hotkey |-> sp.hotkey, chord |-> sp.chord,
                     norm_key |-> norm_key, type |-> hotkey_type]
      /\ chordsAdded' = chordsAdded \cup {sp.chord}
      /\ UNCHANGED <<typerVars, hkVars, asrVars, optVars, appVars>>

AddStep == \E sp \in Spellings, cb \in Callbacks, ty \in Phases :
  add_hotkey(sp, cb, ty)

RegisterInit ==
  /\ callback_table = <<>>
  /\ lastAdd = [hotkey |-> <<>>, chord |-> {}, norm_key |-> <<>>,
                type |-> "none"]
  /\ chordsAdded = {}
  /\ nAdds = 0

\* ----------------------------------------------------------- SpeechEngine
\* An audio sample is voiced ("v") or silent ("-"); a chunk is a sequence
\* of samples as the recorder delivers it.
Samples == {"v", "-"}
Chunks == {<<"v">>, <<"-">>, <<"v", "v">>, <<"v", "-">>, <<"-", "v">>,
           <<"-", "-">>}
\* feed_audio calls in one session.
MaxFeeds == 3
\* AudioRecorder(sample_rate=16000), and the rate main.py passes on.
SampleRate == 16000

\* np.concatenate of a list of chunks
RECURSIVE Concatenate(_)
Concatenate(chunks) ==
  IF chunks = <<>> THEN <<>> ELSE Head(chunks) \o Concatenate(Tail(chunks))

\* recognizer.create_stream / accept_waveform / decode_stream / result.text:
\* the recognizer is a deterministic function of the audio, here a voiced
\* sample heard as "a" and a silent one as white space; no audio, no text.
DecodeStream(sample_rate, samples) ==
  [i \in DOMAIN samples |-> IF samples[i] = "v" THEN "a" ELSE " "]

\* str.strip()
RECURSIVE StrStrip(_)
StrStrip(text) ==
  IF text = <<>> THEN <<>>
  ELSE IF Head(text) = " " THEN StrStrip(Tail(text))
  ELSE IF text[Len(text)] = " " THEN StrStrip(SubSeq(text, 1, Len(text) - 1))
  ELSE text

\* The voice activity detector: the voiced run in progress and the queue of
\* completed segments.  A silent sample after a voiced run completes it.
VadAbsent == [loaded |-> FALSE, speech |-> <<>>, queue |-> <<>>]
VadFresh == [loaded |-> TRUE, speech |-> <<>>, queue |-> <<>>]

\* vad.reset()
VadReset(v) == [v EXCEPT !.speech = <<>>, !.queue = <<>>]

\* vad.accept_waveform(samples)
RECURSIVE VadAcceptWaveform(_, _)
VadAcceptWaveform(v, samples) ==
  IF samples = <<>> THEN v
  ELSE IF Head(samples) = "v"
       THEN VadAcceptWaveform([v EXCEPT !.speech = Append(@, "v")],
                              Tail(samples))
       ELSE IF v.speech # <<>>
            THEN VadAcceptWaveform([v EXCEPT !.queue = Append(@, v.speech),
                                             !.speech = <<>>],
                                   Tail(samples))
            ELSE VadAcceptWaveform(v, Tail(samples))

\* vad.is_speech_detected()
IsSpeechDetected(v) == v.speech # <<>>

\* The rolling buffer kept while no speech has started: 16000 * 2 samples
\* in the code, two samples here.
max_len == 2

\* The engine: e.vad, e.buffer, e.started.
\* start_stream
StartStream(e) ==
  [e EXCEPT !.vad = IF e.vad.loaded THEN VadReset(e.vad) ELSE e.vad,
            !.buffer = <<>>,
            !.started = FALSE]

\* The `while not self.vad.empty()` loop of feed_audio: the callbacks made
\* for the completed segments.
RECURSIVE FinalCalls(_, _)
FinalCalls(segments, sample_rate) ==
  IF segments = <<>> THEN <<>>
  ELSE LET raw_text == StrStrip(DecodeStream(sample_rate, Head(segments)))
       IN  (IF raw_text # <<>>
            THEN <<[cb |-> "final", text |-> raw_text]>> ELSE <<>>)
           \o FinalCalls(Tail(segments), sample_rate)

\* feed_audio with a detector: `elapsed` says whether more than 0.25 s
\* passed since started_time.  The result is the engine afterwards and the
\* callbacks invoked, in order.
\* feed_audio with a detector whose final loop decodes the segments but
\* leaves the rolling buffer and the started flag as they are.
FeedAudioVad_NoReset(e, samples, sample_rate, elapsed) ==
  LET v1 == VadAcceptWaveform(e.vad, samples)
      b0 == e.buffer \o samples
      b1 == IF ~e.started /\ Len(b0) > max_len
            THEN SubSeq(b0, Len(b0) - max_len + 1, Len(b0)) ELSE b0
      started1 == e.started \/ IsSpeechDetected(v1)
      text == StrStrip(DecodeStream(sample_rate, b1))
      partial == IF started1 /\ Len(b1) > 0 /\ elapsed /\ text # <<>>
                 THEN <<[cb |-> "partial", text |-> text]>> ELSE <<>>
  IN  [engine |-> [vad |-> [v1 EXCEPT !.queue = <<>>],
                   buffer |-> b1,
                   started |-> started1],
       calls |-> partial \o FinalCalls(v1.queue, sample_rate)]

\* feed_audio with a detector that never trims the rolling buffer.
FeedAudioVad_NoTrim(e, samples, sample_rate, elapsed) ==
  LET v1 == VadAcceptWaveform(e.vad, samples)
      b1 == e.buffer \o samples
      started1 == e.started \/ IsSpeechDetected(v1)
      text == StrStrip(DecodeStream(sample_rate, b1))
      partial == IF started1 /\ Len(b1) > 0 /\ elapsed /\ text # <<>>
                 THEN <<[cb |-> "partial", text |-> text]>> ELSE <<>>
  IN  [engine |-> [vad |-> [v1 EXCEPT !.queue = <<>>],
                   buffer |-> IF v1.queue # <<>> THEN <<>> ELSE b1,
                   started |-> IF v1.queue # <<>> THEN FALSE ELSE started1],
       calls |-> partial \o FinalCalls(v1.queue, sample_rate)]

FeedAudioVad(e, samples, sample_rate, elapsed) ==
  LET v1 == VadAcceptWaveform(e.vad, samples)
      b0 == e.buffer \o samples
      b1 == IF ~e.started /\ Len(b0) > max_len
            THEN SubSeq(b0, Len(b0) - max_len + 1, Len(b0)) ELSE b0
      started1 == e.started \/ IsSpeechDetected(v1)
      text == StrStrip(DecodeStream(sample_rate, b1))
      partial == IF started1 /\ Len(b1) > 0 /\ elapsed /\ text # <<>>
                 THEN <<[cb |-> "partial", text |-> text]>> ELSE <<>>
  IN  [engine |-> [vad |-> [v1 EXCEPT !.queue = <<>>],
                   buffer |-> IF v1.queue # <<>> THEN <<>> ELSE b1,
                   started |-> IF v1.queue # <<>> THEN FALSE ELSE started1],
       calls |-> partial \o FinalCalls(v1.queue, sample_rate)]

\* feed_audio with a detector when recognizer.decode_stream raises at the
\* first decode of the call (line 172, else line 185): whether the call
\* decodes at all, and the engine the exception leaves behind.  The lines
\* before the decode have run; of the completed segments the first has been
\* popped when it is its decode that raises.
FeedAudioDecodeRaise(e, samples, sample_rate, elapsed) ==
  LET v1 == VadAcceptWaveform(e.vad, samples)
      b0 == e.buffer \o samples
      b1 == IF ~e.started /\ Len(b0) > max_len
            THEN SubSeq(b0, Len(b0) - max_len + 1, Len(b0)) ELSE b0
      started1 == e.started \/ IsSpeechDetected(v1)
      partial == started1 /\ Len(b1) > 0 /\ elapsed
  IN  [decodes |-> e.vad.loaded /\ (partial \/ v1.queue # <<>>),
       engine |-> [vad |-> IF partial \/ v1.queue = <<>> THEN v1
                           ELSE [v1 EXCEPT !.queue = Tail(@)],
                   buffer |-> b1,
                   started |-> started1]]

\* feed_audio that takes the detector path whether or not one is loaded.
FeedAudio_NoDegrade(e, samples, sample_rate, elapsed) ==
  FeedAudioVad(e, samples, sample_rate, elapsed)

\* feed_audio
FeedAudio(e, samples, sample_rate, elapsed) ==
  IF ~e.vad.loaded
  THEN [engine |-> [e EXCEPT !.buffer = @ \o samples], calls |-> <<>>]
  ELSE FeedAudioVad(e, samples, sample_rate, elapsed)

\* stop_stream: the engine afterwards and the text returned.
\* stop_stream that, with a detector, resets without decoding what has
\* accumulated.
StopStream_NoFlush(e) ==
  LET text == StrStrip(DecodeStream(16000, e.buffer))
  IN  [engine |-> StartStream(e),
       result |-> IF ~e.vad.loaded
                  THEN (IF Len(e.buffer) > 0 THEN text ELSE <<>>)
                  ELSE <<>>]

StopStream(e) ==
  LET text == StrStrip(DecodeStream(16000, e.buffer))
  IN  [engine |-> StartStream(e),
       result |-> IF ~e.vad.loaded
                  THEN (IF Len(e.buffer) > 0 THEN text ELSE <<>>)
                  ELSE (IF e.started /\ Len(e.buffer) > 0 THEN text
                        ELSE <<>>)]

\* transcribe_offline
TranscribeOffline(samples, sample_rate) ==
  StrStrip(DecodeStream(sample_rate, samples))

NoStop == [called |-> FALSE, result |-> <<>>, fed |-> <<>>, calls |-> <<>>]

Engine == [vad |-> vad, buffer |-> buffer, started |-> started]

SetEngine(e) ==
  /\ vad' = e.vad
  /\ buffer' = e.buffer
  /\ started' = e.started

\* asr.start_stream() by any caller
AsrStartStream ==
  /\ SetEngine(StartStream(Engine))
  /\ fedLog' = <<>>
  /\ cbLog' = <<>>
  /\ lastStop' = NoStop

\* asr.feed_audio(samples, 16000) by any caller
AsrFeedAudio(samples, elapsed) ==
  LET r == FeedAudio(Engine, samples, SampleRate, elapsed)
  IN  /\ SetEngine(r.engine)
      /\ fedLog' = Append(fedLog, samples)
      /\ cbLog' = cbLog \o r.calls
      /\ lastStop' = NoStop

\* asr.stop_stream() by any caller
AsrStopStream ==
  LET r == StopStream(Engine)
  IN  /\ SetEngine(r.engine)
      /\ lastStop' = [called |-> TRUE, result |-> r.result, fed |-> fedLog,
                      calls |-> cbLog]
      /\ fedLog' = <<>>
      /\ cbLog' = <<>>

\* The engine driven directly: any order of its three streaming calls.
EngStartStream == AsrStartStream /\ UNCHANGED nonAsrVars

EngFeedAudio == \E samples \in Chunks, elapsed \in BOOLEAN :
  /\ Len(fedLog) < MaxFeeds
  /\ AsrFeedAudio(samples, elapsed)
  /\ UNCHANGED nonAsrVars

EngStopStream == AsrStopStream /\ UNCHANGED nonAsrVars

\* The engine after __init__, but for the detector, which depends on the
\* VAD asset being found.
EngineInit ==
  /\ buffer = <<>>
  /\ started = FALSE
  /\ fedLog = <<>>
  /\ cbLog = <<>>
  /\ lastStop = NoStop

\* ----------------------------------------------------------- LLMOptimizer
\* Longest text handed to optimize and longest response content.
MaxReply == 2
Texts == UNION {[1..n -> {"a", " "}] : n \in 0..MaxReply}
Replies == UNION {[1..n -> {"b", " "}] : n \in 0..MaxReply}

\* What client.chat.completions.create and the reading of its response do:
\* the request raises (network error, or the 15 s timeout), the response
\* has no choice, its message content is None, or it has a content.
Outcomes ==
  {[kind |-> k, content |-> <<>>] :
     k \in {"error", "timeout", "no_choices", "none"}}
  \cup {[kind |-> "content", content |-> c] : c \in Replies}

\* The try block of optimize: an exception, or the value it returns.
OptimizeTry(text, outcome) ==
  IF outcome.kind # "content"
  THEN [exc |-> TRUE, value |-> <<>>]
  ELSE LET content == StrStrip(outcome.content)
       IN  [exc |-> FALSE,
            value |-> IF content = <<>> THEN text ELSE content]

\* optimize without the except clause.
Optimize_NoExcept(client, text, outcome) ==
  IF ~client \/ text = <<>> \/ Len(StrStrip(text)) < 1
  THEN [raised |-> FALSE, value |-> text, requested |-> FALSE]
  ELSE LET t == OptimizeTry(text, outcome)
       IN  [raised |-> t.exc, value |-> t.value, requested |-> TRUE]

\* optimize: whether it raised, what it returned, whether it made a request.
Optimize(client, text, outcome) ==
  IF ~client \/ text = <<>> \/ Len(StrStrip(text)) < 1
  THEN [raised |-> FALSE, value |-> text, requested |-> FALSE]
  ELSE LET t == OptimizeTry(text, outcome)
       IN  IF t.exc
           THEN [raised |-> FALSE, value |-> text, requested |-> TRUE]
           ELSE [raised |-> FALSE, value |-> t.value, requested |-> TRUE]

optimize ==
  \E client \in BOOLEAN, text \in Texts, outcome \in Outcomes :
    /\ lastOpt' = [called |-> TRUE, client |-> client, text |-> text,
                   outcome |-> outcome,
                   ret |-> Optimize(client, text, outcome)]
    /\ UNCHANGED nonOptVars

NoOpt == [called |-> FALSE, client |-> FALSE, text |-> <<>>,
          outcome |-> [kind |-> "error", content |-> <<>>],
          ret |-> [raised |-> FALSE, value |-> <<>>, requested |-> FALSE]]

OptimizerInit == lastOpt = NoOpt

\* ------------------------------------------ AudioRecorder, VoiceInputMethod
\* The chunks the microphone delivers, chunks captured in one session, and
\* hotkey callbacks invoked in one run.
MicChunks == {<<"v">>, <<"-">>}
MaxChunks == 2
MaxCalls == 3

StartFns == {"start_recording_task", "start_llm_recording_task"}
TaskOf(fn) == IF fn = "start_recording_task" THEN "std" ELSE "llm"

\* No hotkey callback running; no processing thread.
NoCall == [fn |-> "none", pc |-> "idle"]
NoProc == [pc |-> "absent", chunk |-> <<>>]

NoSession == [task |-> "none", active |-> FALSE, discarded |-> <<>>,
              captured |-> <<>>, pulled |-> <<>>, late |-> 0, fed |-> <<>>,
              engineOps |-> {}, edits |-> 0]
NoEnd == [task |-> "none", path |-> "none", audio |-> <<>>,
          pulled |-> <<>>, late |-> 0, text |-> <<>>, optimized |-> FALSE,
          committed |-> <<>>]

\* What the request of optimize does when the application makes it.
AppOutcomes ==
  {[kind |-> "error", content |-> <<>>], [kind |-> "none", content |-> <<>>],
   [kind |-> "content", content |-> <<" ">>],
   [kind |-> "content", content |-> <<"b", " ">>]}

\* A status marker "(( ... ))": its opening and what it says.
Status(tag) == <<"(", tag>>

\* One TextTyper operation, the injection succeeding, on t.
TyperDo(t, op, arg) ==
  After(t, op, arg,
        CASE op = "show_status" -> ShowStatusFn(t.content, arg, 0)
          [] op = "update_stream" -> UpdateStreamFn(t.content, arg, 0)
          [] op = "commit_text" -> CommitTextFn(t.content, arg, 0)
          [] OTHER -> ClearTempFn(t.content))

\* on_partial_text and on_final_text for the callbacks of one feed_audio.
RECURSIVE EngineCallbacks(_, _, _, _)
EngineCallbacks(t, calls, task, mode) ==
  IF calls = <<>> THEN t
  ELSE EngineCallbacks(
         IF task = "std" /\ mode = "stream"
         THEN TyperDo(t, IF Head(calls).cb = "partial" THEN "update_stream"
                         ELSE "commit_text", Head(calls).text)
         ELSE t,
         Tail(calls), task, mode)

\* start_recording_task and start_llm_recording_task without the guard of
\* lines 117 and 132.
StartTask_NoGuard(fn) ==
  /\ call = NoCall
  /\ nCalls < MaxCalls
  /\ nCalls' = nCalls + 1
  /\ current_task' = TaskOf(fn)
  /\ call' = [fn |-> fn, pc |-> "show_status"]
  /\ lastCall' = [fn |-> fn, noop |-> FALSE]
  /\ session' = [NoSession EXCEPT !.task = TaskOf(fn)]
  /\ lastEnd' = NoEnd
  /\ lastOpt' = NoOpt
  /\ UNCHANGED <<default_mode, is_running, audio_buffer, proc, recVars,
                 nThreads>>
  /\ UNCHANGED <<typerVars, asrVars, hkVars, regVars>>

\* start_recording_task, start_llm_recording_task: the guard and the task
\* (lines 117-118, 132-133).  The hotkey lock lets one callback run at a
\* time.
StartTask(fn) ==
  /\ call = NoCall
  /\ nCalls < MaxCalls
  /\ nCalls' = nCalls + 1
  /\ IF is_running
     THEN /\ lastCall' = [fn |-> fn, noop |-> TRUE]
          /\ UNCHANGED <<current_task, call, session, lastEnd, lastOpt>>
     ELSE /\ current_task' = TaskOf(fn)
          /\ call' = [fn |-> fn, pc |-> "show_status"]
          /\ lastCall' = [fn |-> fn, noop |-> FALSE]
          /\ session' = [NoSession EXCEPT !.task = TaskOf(fn)]
          /\ lastEnd' = NoEnd
          /\ lastOpt' = NoOpt
  /\ UNCHANGED <<default_mode, is_running, audio_buffer, proc, recVars,
                 nThreads>>
  /\ UNCHANGED <<typerVars, asrVars, hkVars, regVars>>

\* self.typer.show_status(status), lines 120-121 and 136
StartShowStatus ==
  /\ call.pc = "show_status"
  /\ SetTyper(TyperDo(Typer, "show_status",
                      Status(IF call.fn = "start_llm_recording_task"
                             THEN "rec_llm"
                             ELSE IF default_mode = "stream"
                                  THEN "rec_stream" ELSE "rec_offline")))
  /\ call' = [call EXCEPT !.pc = "start_capture"]
  /\ UNCHANGED <<default_mode, current_task, is_running, audio_buffer, proc,
                 recVars, orchObsVars>>
  /\ UNCHANGED <<asrVars, hkVars, regVars, optVars>>

\* Where a start callback goes on after _start_capture.
AfterCapture(c) ==
  IF c.fn = "start_recording_task" THEN [c EXCEPT !.pc = "start_stream"]
  ELSE NoCall

\* _start_capture, lines 81-84
StartCapture ==
  /\ call.pc = "start_capture"
  /\ IF is_running
     THEN /\ call' = AfterCapture(call)
          /\ UNCHANGED <<audio_buffer, is_running, session>>
     ELSE /\ audio_buffer' = <<>>
          /\ is_running' = TRUE
          /\ session' = [session EXCEPT !.active = TRUE]
          /\ call' = [call EXCEPT !.pc = "recorder_start"]
  /\ UNCHANGED <<default_mode, current_task, proc, recVars, lastEnd, nCalls,
                 nThreads, lastCall>>
  /\ UNCHANGED <<typerVars, asrVars, hkVars, regVars, optVars>>

\* AudioRecorder.start that leaves the queue as it finds it.
RecorderStart_NoDrain ==
  /\ call.pc = "recorder_start"
  /\ IF is_recording
     THEN UNCHANGED <<is_recording, session>>
     ELSE /\ is_recording' = TRUE
          /\ session' = [session EXCEPT !.captured = <<>>]
  /\ UNCHANGED audio_queue
  /\ call' = [call EXCEPT !.pc = "thread_start"]
  /\ UNCHANGED <<default_mode, current_task, is_running, audio_buffer, proc,
                 lastEnd, nCalls, nThreads, lastCall>>
  /\ UNCHANGED <<typerVars, asrVars, hkVars, regVars, optVars>>

\* self.recorder.start(), line 85
RecorderStart ==
  /\ call.pc = "recorder_start"
  /\ IF is_recording
     THEN UNCHANGED <<is_recording, audio_queue, session>>
     ELSE /\ is_recording' = TRUE
          /\ audio_queue' = <<>>
          /\ session' = [session EXCEPT !.captured = <<>>,
                                         !.discarded = audio_queue]
  /\ call' = [call EXCEPT !.pc = "thread_start"]
  /\ UNCHANGED <<default_mode, current_task, is_running, audio_buffer, proc,
                 lastEnd, nCalls, nThreads, lastCall>>
  /\ UNCHANGED <<typerVars, asrVars, hkVars, regVars, optVars>>

\* threading.Thread(target=self._process_loop).start(), lines 88-89
ThreadStart ==
  /\ call.pc = "thread_start"
  /\ proc' = [pc |-> "check", chunk |-> <<>>]
  /\ nThreads' = nThreads + 1
  /\ call' = AfterCapture(call)
  /\ UNCHANGED <<default_mode, current_task, is_running, audio_buffer,
                 recVars, session, lastEnd, nCalls, lastCall>>
  /\ UNCHANGED <<typerVars, asrVars, hkVars, regVars, optVars>>

\* start_recording_task, lines 124-125
StartStreamStep ==
  /\ call.pc = "start_stream"
  /\ IF default_mode = "stream"
     THEN /\ AsrStartStream
          /\ session' = [session EXCEPT !.engineOps = @ \cup {"start_stream"}]
     ELSE UNCHANGED <<asrVars, session>>
  /\ call' = NoCall
  /\ UNCHANGED <<default_mode, current_task, is_running, audio_buffer, proc,
                 recVars, lastEnd, nCalls, nThreads, lastCall>>
  /\ UNCHANGED <<typerVars, hkVars, regVars, optVars>>

\* stop_any_task, line 146
StopTask ==
  /\ call = NoCall
  /\ nCalls < MaxCalls
  /\ nCalls' = nCalls + 1
  /\ lastCall' = [fn |-> "stop_any_task", noop |-> ~is_running]
  /\ call' = IF is_running
             THEN [fn |-> "stop_any_task", pc |-> "stop_capture"]
             ELSE NoCall
  /\ UNCHANGED <<default_mode, current_task, is_running, audio_buffer, proc,
                 recVars, session, lastEnd, nThreads>>
  /\ UNCHANGED <<typerVars, asrVars, hkVars, regVars, optVars>>

\* _stop_capture, line 93
StopCapture ==
  /\ call.pc = "stop_capture"
  /\ is_running' = FALSE
  /\ call' = [call EXCEPT !.pc = "recorder_stop"]
  /\ UNCHANGED <<default_mode, current_task, audio_buffer, proc, recVars,
                 orchObsVars>>
  /\ UNCHANGED <<typerVars, asrVars, hkVars, regVars, optVars>>

\* self.recorder.stop(), line 94
RecorderStop ==
  /\ call.pc = "recorder_stop"
  /\ is_recording' = FALSE
  /\ call' = [call EXCEPT !.pc = "join"]
  /\ UNCHANGED <<default_mode, current_task, is_running, audio_buffer, proc,
                 audio_queue, orchObsVars>>
  /\ UNCHANGED <<typerVars, asrVars, hkVars, regVars, optVars>>

\* _stop_capture that does not wait for the processing thread.
Join_NoWait ==
  /\ call.pc = "join"
  /\ call' = [call EXCEPT !.pc = "finish"]
  /\ UNCHANGED <<default_mode, current_task, is_running, audio_buffer, proc,
                 recVars, orchObsVars>>
  /\ UNCHANGED <<typerVars, asrVars, hkVars, regVars, optVars>>

\* self.processing_thread.join(), lines 95-96
Join ==
  /\ call.pc = "join"
  /\ proc.pc \in {"absent", "dead", "crashed"}
  /\ call' = [call EXCEPT !.pc = "finish"]
  /\ UNCHANGED <<default_mode, current_task, is_running, audio_buffer, proc,
                 recVars, orchObsVars>>
  /\ UNCHANGED <<typerVars, asrVars, hkVars, regVars, optVars>>

\* What stop_any_task did for the session, when it is known.
Ended(path, text, optimized, committed) ==
  [task |-> current_task, path |-> path, audio |-> audio_buffer,
   pulled |-> session.pulled, late |-> session.late, text |-> text,
   optimized |-> optimized,
   committed |-> committed]

\* _finish_std_task in stream mode, lines 161-166
FinishStream ==
  /\ call.pc = "finish"
  /\ current_task = "std" /\ default_mode = "stream"
  /\ AsrStopStream
  /\ LET final_text == StopStream(Engine).result
     IN  /\ SetTyper(IF final_text # <<>>
                     THEN TyperDo(Typer, "commit_text", final_text)
                     ELSE TyperDo(Typer, "clear_temp", <<>>))
         /\ lastEnd' = Ended(IF final_text # <<>> THEN "stream_commit"
                             ELSE "stream_clear",
                             final_text, FALSE, final_text)
  /\ session' = [session EXCEPT !.engineOps = @ \cup {"stop_stream"}]
  /\ call' = [call EXCEPT !.pc = "reset"]
  /\ UNCHANGED <<default_mode, current_task, is_running, audio_buffer, proc,
                 recVars, nCalls, nThreads, lastCall>>
  /\ UNCHANGED <<hkVars, regVars, optVars>>

\* _transcribe_and_paste, lines 177-184
TranscribeBegin ==
  /\ call.pc = "finish"
  /\ current_task = "llm" \/ (current_task = "std" /\ default_mode # "stream")
  /\ IF audio_buffer = <<>>
     THEN /\ SetTyper(TyperDo(Typer, "show_status", Status("too_short")))
          /\ call' = [call EXCEPT !.pc = "too_short"]
     ELSE /\ SetTyper(TyperDo(Typer, "show_status",
                              Status(IF current_task = "llm"
                                     THEN "polishing" ELSE "transcribing")))
          /\ call' = [call EXCEPT !.pc = "transcribe"]
  /\ UNCHANGED <<default_mode, current_task, is_running, audio_buffer, proc,
                 recVars, orchObsVars>>
  /\ UNCHANGED <<asrVars, hkVars, regVars, optVars>>

\* _transcribe_and_paste, lines 179-181
TooShortClear ==
  /\ call.pc = "too_short"
  /\ SetTyper(TyperDo(Typer, "clear_temp", <<>>))
  /\ lastEnd' = Ended("too_short", <<>>, FALSE, <<>>)
  /\ call' = [call EXCEPT !.pc = "reset"]
  /\ UNCHANGED <<default_mode, current_task, is_running, audio_buffer, proc,
                 recVars, session, nCalls, nThreads, lastCall>>
  /\ UNCHANGED <<asrVars, hkVars, regVars, optVars>>

\* final_text of _transcribe_and_paste with optimize applied whatever the
\* task.
FinalText_AlwaysOptimized(use_llm, text, opt) == opt.value

\* final_text of _transcribe_and_paste, lines 198-200
FinalText(use_llm, text, opt) == IF use_llm THEN opt.value ELSE text

\* _transcribe_and_paste, lines 186-208: the recognizer may raise; the
\* request of optimize has any outcome.
Transcribe ==
  \E raises \in BOOLEAN, client \in BOOLEAN, outcome \in AppOutcomes :
    LET use_llm == current_task = "llm"
        text == TranscribeOffline(Concatenate(audio_buffer), SampleRate)
        opt == Optimize(client, text, outcome)
        final_text == FinalText(use_llm, text, opt)
    IN  /\ call.pc = "transcribe"
        /\ session' = [session EXCEPT
                         !.engineOps = @ \cup {"transcribe_offline"}]
        /\ IF raises
           THEN /\ SetTyper(TyperDo(Typer, "clear_temp", <<>>))
                /\ lastEnd' = Ended("exception", <<>>, FALSE, <<>>)
                /\ call' = [call EXCEPT !.pc = "reset"]
                /\ UNCHANGED lastOpt
           ELSE IF text = <<>>
           THEN /\ SetTyper(TyperDo(Typer, "show_status", Status("nothing")))
                /\ lastEnd' = Ended("nothing", text, FALSE, <<>>)
                /\ call' = [call EXCEPT !.pc = "nothing"]
                /\ UNCHANGED lastOpt
           ELSE /\ SetTyper(TyperDo(TyperDo(Typer, "clear_temp", <<>>),
                                    "commit_text", final_text))
                /\ lastEnd' = Ended("committed", text, use_llm, final_text)
                /\ call' = [call EXCEPT !.pc = "reset"]
                /\ IF use_llm
                   THEN lastOpt' = [called |-> TRUE, client |-> client,
                                    text |-> text, outcome |-> outcome,
                                    ret |-> opt]
                   ELSE UNCHANGED lastOpt
        /\ UNCHANGED <<default_mode, current_task, is_running, audio_buffer,
                       proc, recVars, nCalls, nThreads, lastCall>>
        /\ UNCHANGED <<asrVars, hkVars, regVars>>

\* _transcribe_and_paste, lines 193-195
NothingClear ==
  /\ call.pc = "nothing"
  /\ SetTyper(TyperDo(Typer, "clear_temp", <<>>))
  /\ call' = [call EXCEPT !.pc = "reset"]
  /\ UNCHANGED <<default_mode, current_task, is_running, audio_buffer, proc,
                 recVars, orchObsVars>>
  /\ UNCHANGED <<asrVars, hkVars, regVars, optVars>>

\* stop_any_task, line 157
ResetTask ==
  /\ call.pc = "reset"
  /\ current_task' = "none"
  /\ session' = NoSession
  /\ call' = NoCall
  /\ UNCHANGED <<default_mode, is_running, audio_buffer, proc, recVars,
                 lastEnd, nCalls, nThreads, lastCall>>
  /\ UNCHANGED <<typerVars, asrVars, hkVars, regVars, optVars>>

\* _process_loop whose loop condition is always true.
ProcCheck_NoExit ==
  /\ proc.pc = "check"
  /\ proc' = [proc EXCEPT !.pc = "pull"]
  /\ UNCHANGED <<default_mode, current_task, is_running, audio_buffer, call,
                 recVars, session, lastEnd, nCalls, nThreads, lastCall>>
  /\ UNCHANGED <<typerVars, asrVars, hkVars, regVars, optVars>>

\* _process_loop, line 100
ProcCheck ==
  /\ proc.pc = "check"
  /\ proc' = [proc EXCEPT !.pc = IF is_running THEN "pull" ELSE "dead"]
  /\ nThreads' = IF is_running THEN nThreads ELSE nThreads - 1
  /\ UNCHANGED <<default_mode, current_task, is_running, audio_buffer, call,
                 recVars, session, lastEnd, nCalls, lastCall>>
  /\ UNCHANGED <<typerVars, asrVars, hkVars, regVars, optVars>>

\* _process_loop, lines 101-102 and 109-110, with get_audio_chunk
\* _process_loop whose get_audio_chunk returns the head of the queue and
\* leaves it there.
ProcPull_NoPop ==
  /\ proc.pc = "pull"
  /\ IF audio_queue # <<>>
     THEN /\ proc' = [pc |-> "handle", chunk |-> Head(audio_queue)]
          /\ Len(session.pulled) < MaxChunks + 1
          /\ session' = [session EXCEPT
                           !.pulled = Append(@, Head(audio_queue))]
     ELSE /\ proc' = [proc EXCEPT !.pc = "check"]
          /\ UNCHANGED session
  /\ UNCHANGED audio_queue
  /\ UNCHANGED <<default_mode, current_task, is_running, audio_buffer, call,
                 is_recording, lastEnd, nCalls, nThreads, lastCall>>
  /\ UNCHANGED <<typerVars, asrVars, hkVars, regVars, optVars>>

ProcPull ==
  /\ proc.pc = "pull"
  /\ IF audio_queue # <<>>
     THEN /\ proc' = [pc |-> "handle", chunk |-> Head(audio_queue)]
          /\ audio_queue' = Tail(audio_queue)
          /\ session' = [session EXCEPT
                           !.pulled = Append(@, Head(audio_queue)),
                           !.late = IF is_running THEN @ ELSE @ + 1]
     ELSE /\ proc' = [proc EXCEPT !.pc = "check"]
          /\ UNCHANGED <<audio_queue, session>>
  /\ UNCHANGED <<default_mode, current_task, is_running, audio_buffer, call,
                 is_recording, lastEnd, nCalls, nThreads, lastCall>>
  /\ UNCHANGED <<typerVars, asrVars, hkVars, regVars, optVars>>

\* _process_loop that feeds the engine whatever the task.
ProcHandle_AnyTask ==
  \E elapsed \in BOOLEAN :
    LET calls == FeedAudio(Engine, proc.chunk, SampleRate, elapsed).calls
    IN  /\ proc.pc = "handle"
        /\ default_mode = "stream" \/ ~elapsed
        /\ IF default_mode = "stream"
           THEN /\ AsrFeedAudio(proc.chunk, elapsed)
                /\ SetTyper(EngineCallbacks(Typer, calls, current_task,
                                            default_mode))
                /\ session' = [session EXCEPT
                                 !.engineOps = @ \cup {"feed_audio"},
                                 !.fed = Append(@, proc.chunk),
                                 !.edits = @ + Len(calls)]
                /\ UNCHANGED audio_buffer
           ELSE /\ audio_buffer' = Append(audio_buffer, proc.chunk)
                /\ UNCHANGED <<typerVars, asrVars, session>>
        /\ proc' = [pc |-> "check", chunk |-> <<>>]
        /\ UNCHANGED <<default_mode, current_task, is_running, call, recVars,
                       lastEnd, nCalls, nThreads, lastCall>>
        /\ UNCHANGED <<hkVars, regVars, optVars>>

\* _process_loop that lets go of the chunk it pulled.
ProcHandle_DropChunk ==
  /\ proc.pc = "handle"
  /\ proc' = [pc |-> "check", chunk |-> <<>>]
  /\ UNCHANGED <<default_mode, current_task, is_running, audio_buffer, call,
                 recVars, orchObsVars>>
  /\ UNCHANGED <<typerVars, asrVars, hkVars, regVars, optVars>>

\* _process_loop, lines 105-108, with on_partial_text and on_final_text
ProcHandle ==
  \E elapsed \in BOOLEAN :
    LET streaming == current_task = "std" /\ default_mode = "stream"
        calls == FeedAudio(Engine, proc.chunk, SampleRate, elapsed).calls
    IN  /\ proc.pc = "handle"
        /\ streaming \/ ~elapsed
        /\ IF streaming
           THEN /\ AsrFeedAudio(proc.chunk, elapsed)
                /\ SetTyper(EngineCallbacks(Typer, calls, current_task,
                                            default_mode))
                /\ session' = [session EXCEPT
                                 !.engineOps = @ \cup {"feed_audio"},
                                 !.fed = Append(@, proc.chunk),
                                 !.edits = @ + Len(calls)]
                /\ UNCHANGED audio_buffer
           ELSE /\ audio_buffer' = Append(audio_buffer, proc.chunk)
                /\ UNCHANGED <<typerVars, asrVars, session>>
        /\ proc' = [pc |-> "check", chunk |-> <<>>]
        /\ UNCHANGED <<default_mode, current_task, is_running, call, recVars,
                       lastEnd, nCalls, nThreads, lastCall>>
        /\ UNCHANGED <<hkVars, regVars, optVars>>

\* _process_loop, lines 105-106, when decode_stream raises inside
\* feed_audio: neither feed_audio nor the loop has a try, so the exception
\* ends the thread.
ProcHandleRaise ==
  \E elapsed \in BOOLEAN :
    LET r == FeedAudioDecodeRaise(Engine, proc.chunk, SampleRate, elapsed)
    IN  /\ proc.pc = "handle"
        /\ current_task = "std" /\ default_mode = "stream"
        /\ r.decodes
        /\ SetEngine(r.engine)
        /\ fedLog' = Append(fedLog, proc.chunk)
        /\ UNCHANGED <<cbLog, lastStop>>
        /\ session' = [session EXCEPT
                         !.engineOps = @ \cup {"feed_audio"},
                         !.fed = Append(@, proc.chunk)]
        /\ proc' = [pc |-> "crashed", chunk |-> <<>>]
        /\ nThreads' = nThreads - 1
        /\ UNCHANGED <<default_mode, current_task, is_running, audio_buffer,
                       call, recVars, lastEnd, nCalls, lastCall>>
        /\ UNCHANGED <<typerVars, hkVars, regVars, optVars>>

\* AudioRecorder._audio_callback, on the audio thread while the stream is
\* open
AudioCallback ==
  \E chunk \in MicChunks :
    /\ is_recording
    /\ Len(session.captured) < MaxChunks
    /\ audio_queue' = Append(audio_queue, chunk)
    /\ session' = [session EXCEPT !.captured = Append(@, chunk)]
    /\ UNCHANGED <<orchVars, is_recording, lastEnd, nCalls, nThreads,
                   lastCall>>
    /\ UNCHANGED <<typerVars, asrVars, hkVars, regVars, optVars>>

\* VoiceInputMethod.__init__ and AudioRecorder.__init__, but for the
\* configured mode.
OrchInit ==
  /\ current_task = "none"
  /\ is_running = FALSE
  /\ audio_buffer = <<>>
  /\ proc = NoProc
  /\ call = NoCall
  /\ is_recording = FALSE
  /\ audio_queue = <<>>
  /\ session = NoSession
  /\ lastEnd = NoEnd
  /\ nCalls = 0
  /\ nThreads = 0
  /\ lastCall = [fn |-> "none", noop |-> FALSE]

\* --------------------------------------------------------- specifications

\* Every component as its constructor leaves it (the keyboard scenario, the
\* detector and the configured mode are chosen by the specification).
\* The components of the application are not used.
NoApp == vad = VadAbsent /\ default_mode = "stream"

IdleInit ==
  /\ TyperInit /\ HotkeyInit /\ RegisterInit /\ EngineInit /\ OptimizerInit
  /\ OrchInit

\* The text synchronizer alone.
InitTyper == IdleInit /\ cbMayRaise = FALSE /\ scenario = "free" /\ NoApp
NextTyper ==
  \/ \E t \in Strings : show_status(t)
  \/ \E t \in Strings : update_stream(t)
  \/ \E t \in Strings : commit_text(t)
  \/ clear_temp
SpecTyper == InitTyper /\ [][NextTyper]_vars

\* The text synchronizer when the injection may fail for good.
InitTyperFault == IdleInit /\ cbMayRaise = FALSE /\ scenario = "free" /\ NoApp
NextTyperFault ==
  \/ \E t \in ShortStrings : show_status(t)
  \/ \E t \in ShortStrings : update_stream(t)
  \/ \E t \in ShortStrings : commit_text(t)
  \/ clear_temp
  \/ \E t \in ShortStrings : show_status_raise(t)
  \/ \E t \in ShortStrings : update_stream_raise(t)
  \/ \E t \in ShortStrings : commit_text_raise(t)
SpecTyperFault == InitTyperFault /\ [][NextTyperFault]_vars

\* _paste_with_retry alone.
InitPaste == IdleInit /\ cbMayRaise = FALSE /\ scenario = "free" /\ NoApp
NextPaste == paste_with_retry
SpecPaste == InitPaste /\ [][NextPaste]_vars

\* The hotkey manager under the free keyboard.
InitHotkey == IdleInit /\ cbMayRaise = FALSE /\ scenario = "free" /\ NoApp
NextHotkey ==
  \/ FreeDown \/ FreeRepeat \/ FreeUp
  \/ ElapseStep \/ FinalizeStep \/ LongPressStep
SpecHotkey == InitHotkey /\ [][NextHotkey]_vars

\* The hotkey manager under one clean press-hold-release.
InitClean == IdleInit /\ cbMayRaise = FALSE /\ scenario = "pressing" /\ NoApp
NextClean ==
  \/ CleanDown \/ CleanRepeat \/ CleanUp
  \/ ElapseStep \/ FinalizeStep \/ LongPressStep
SpecClean == InitClean /\ [][NextClean]_vars

\* The hotkey manager under the free keyboard, with callbacks that raise.
InitRaise == IdleInit /\ cbMayRaise = TRUE /\ scenario = "free" /\ NoApp
\* Key events the keyboard delivers in one run with raising callbacks.
MaxRaiseEvents == 5
RaiseDown == nEvents < MaxRaiseEvents /\ FreeDown
RaiseRepeat == nEvents < MaxRaiseEvents /\ FreeRepeat
RaiseUp == nEvents < MaxRaiseEvents /\ FreeUp
NextRaise ==
  \/ RaiseDown \/ RaiseRepeat \/ RaiseUp
  \/ ElapseStep \/ FinalizeStep \/ LongPressStep
SpecRaise == InitRaise /\ [][NextRaise]_vars

\* The hotkey manager under the free keyboard until stop_listening.
InitStop == IdleInit /\ cbMayRaise = FALSE /\ scenario = "free" /\ NoApp
NextStop ==
  \/ FreeDown \/ FreeRepeat \/ FreeUp
  \/ ElapseStep \/ FinalizeStep \/ LongPressStep
  \/ StopListening
SpecStop == InitStop /\ [][NextStop]_vars

\* The hotkey manager with its lock: the hook thread and stop_listening
\* hold the lock for one step, a timer thread takes it, runs its function
\* and gives it back; stop_listening may be followed by start_listening.
MaxLockEvents == 4
\* _on_keyboard_event, lines 128-132: the handler under the lock
LockDown == lock = 0 /\ nEvents < MaxLockEvents /\ FreeDown
LockRepeat == lock = 0 /\ nEvents < MaxLockEvents /\ FreeRepeat
LockUp == lock = 0 /\ nEvents < MaxLockEvents /\ FreeUp
\* `with self._lock:` of a timer thread, lines 192 and 220
LockAcquire == \E i \in Slots :
  /\ timers[i].st = "running"
  /\ lock = 0
  /\ lock' = i
  /\ UNCHANGED <<is_listening, cbMayRaise, listener>>
  /\ UNCHANGED <<hkProgVars, hkObsVars, hkEnvVars, nonHkVars>>
\* _finalize_release and _trigger_long_press inside the lock
LockFinalize == \E i \in Slots :
  lock = i /\ FinalizeRelease(i) /\ UNCHANGED <<hkEnvVars, hkCtlVars, nonHkVars>>
LockLongPress == \E i \in Slots :
  lock = i /\ TriggerLongPress(i) /\ UNCHANGED <<hkEnvVars, hkCtlVars, nonHkVars>>
\* the end of the `with` block of a timer thread
LockRelease ==
  /\ lock # 0
  /\ timers[lock].st # "running"
  /\ lock' = 0
  /\ UNCHANGED <<is_listening, cbMayRaise, listener>>
  /\ UNCHANGED <<hkProgVars, hkObsVars, hkEnvVars, nonHkVars>>
\* stop_listening, lines 90-92
StopBegin ==
  /\ listener = "idle"
  /\ is_listening
  /\ is_listening' = FALSE
  /\ listener' = "stop"
  /\ UNCHANGED <<cbMayRaise, lock>>
  /\ UNCHANGED <<hkProgVars, hkObsVars, hkEnvVars, nonHkVars>>
\* stop_listening, lines 93-97, under the lock
StopLocked ==
  LET held == {long_press_timers[c] : c \in Combos}
                \cup {release_debounce_timers[k] : k \in Keys}
  IN  /\ listener = "stop"
      /\ lock = 0
      /\ timers' = [i \in Slots |->
                      IF i \in held /\ timers[i].st = "armed"
                      THEN NoTimer ELSE timers[i]]
      /\ long_press_timers' = [c \in Combos |-> 0]
      /\ release_debounce_timers' = [k \in Keys |-> 0]
      /\ listener' = "idle"
      /\ UNCHANGED <<pressed_keys, long_press_triggered, is_listening,
                     cbMayRaise, lock>>
      /\ UNCHANGED <<hkObsVars, hkEnvVars, nonHkVars>>
\* start_listening, line 71
StartBegin ==
  /\ listener = "idle"
  /\ ~is_listening
  /\ listener' = "clear"
  /\ UNCHANGED <<is_listening, cbMayRaise, lock>>
  /\ UNCHANGED <<hkProgVars, hkObsVars, hkEnvVars, nonHkVars>>
\* start_listening, lines 73-76: the four clear() calls, outside any
\* `with self._lock`
StartClear ==
  /\ listener = "clear"
  /\ pressed_keys' = {}
  /\ long_press_timers' = [c \in Combos |-> 0]
  /\ long_press_triggered' = {}
  /\ release_debounce_timers' = [k \in Keys |-> 0]
  /\ listener' = "hook"
  /\ UNCHANGED <<timers, is_listening, cbMayRaise, lock>>
  /\ UNCHANGED <<hkObsVars, hkEnvVars, nonHkVars>>
\* start_listening, lines 78-80
StartHook ==
  /\ listener = "hook"
  /\ is_listening' = TRUE
  /\ listener' = "idle"
  /\ UNCHANGED <<cbMayRaise, lock>>
  /\ UNCHANGED <<hkProgVars, hkObsVars, hkEnvVars, nonHkVars>>
InitLock == IdleInit /\ cbMayRaise = FALSE /\ scenario = "free" /\ NoApp
NextLock ==
  \/ LockDown \/ LockRepeat \/ LockUp
  \/ ElapseStep \/ LockAcquire \/ LockFinalize \/ LockLongPress
  \/ LockRelease
  \/ StopBegin \/ StopLocked \/ StartBegin \/ StartClear \/ StartHook
SpecLock == InitLock /\ [][NextLock]_vars

\* add_hotkey alone.
InitRegister == IdleInit /\ cbMayRaise = FALSE /\ scenario = "free" /\ NoApp
NextRegister == AddStep
SpecRegister == InitRegister /\ [][NextRegister]_vars

\* The speech engine alone, with and without a detector.
InitEngine ==
  /\ IdleInit /\ cbMayRaise = FALSE /\ scenario = "free" /\ default_mode = "stream"
  /\ vad \in {VadAbsent, VadFresh}
NextEngine == EngStartStream \/ EngFeedAudio \/ EngStopStream
SpecEngine == InitEngine /\ [][NextEngine]_vars

\* optimize alone.
InitOptimize == IdleInit /\ cbMayRaise = FALSE /\ scenario = "free" /\ NoApp
NextOptimize == optimize
SpecOptimize == InitOptimize /\ [][NextOptimize]_vars

\* The application: the two start callbacks and stop_any_task invoked in
\* any order, one at a time, next to the processing thread and the audio
\* thread.
InitApp ==
  /\ IdleInit /\ cbMayRaise = FALSE /\ scenario = "free"
  /\ default_mode \in {"stream", "offline"}
  /\ vad \in {VadAbsent, VadFresh}
NextApp ==
  \/ \E fn \in StartFns : StartTask(fn)
  \/ StartShowStatus \/ StartCapture \/ RecorderStart \/ ThreadStart
  \/ StartStreamStep
  \/ StopTask \/ StopCapture \/ RecorderStop \/ Join
  \/ FinishStream \/ TranscribeBegin \/ TooShortClear \/ Transcribe
  \/ NothingClear \/ ResetTask
  \/ ProcCheck \/ ProcPull \/ ProcHandle
  \/ AudioCallback
SpecApp == InitApp /\ [][NextApp]_vars

\* The application whose threads are scheduled: the processing thread and
\* the thread of a hotkey callback each take their next step when they
\* have one, engine and typer calls return.  When the callbacks are
\* invoked, and when the microphone delivers, is left open.
ProcSteps == ProcCheck \/ ProcPull \/ ProcHandle
CallSteps ==
  \/ StartShowStatus \/ StartCapture \/ RecorderStart \/ ThreadStart
  \/ StartStreamStep
  \/ StopCapture \/ RecorderStop \/ Join
  \/ FinishStream \/ TranscribeBegin \/ TooShortClear \/ Transcribe
  \/ NothingClear \/ ResetTask
MaxLiveCalls == 2
MaxLiveChunks == 2
LiveStart == \E fn \in StartFns : nCalls < MaxLiveCalls /\ StartTask(fn)
LiveStop == nCalls < MaxLiveCalls /\ StopTask
LiveAudio == Len(session.captured) < MaxLiveChunks /\ AudioCallback
InitAppLive ==
  /\ IdleInit /\ cbMayRaise = FALSE /\ scenario = "free"
  /\ default_mode \in {"stream", "offline"}
  /\ vad \in {VadAbsent, VadFresh}
NextAppLive ==
  \/ LiveStart
  \/ StartShowStatus \/ StartCapture \/ RecorderStart \/ ThreadStart
  \/ StartStreamStep
  \/ LiveStop \/ StopCapture \/ RecorderStop \/ Join
  \/ FinishStream \/ TranscribeBegin \/ TooShortClear \/ Transcribe
  \/ NothingClear \/ ResetTask
  \/ ProcCheck \/ ProcPull \/ ProcHandle
  \/ LiveAudio
SpecAppLive ==
  InitAppLive /\ [][NextAppLive]_vars
    /\ WF_vars(ProcSteps) /\ WF_vars(CallSteps)

\* The application with a recognizer whose decode may raise in feed_audio.
InitAppFault ==
  /\ IdleInit /\ cbMayRaise = FALSE /\ scenario = "free"
  /\ default_mode \in {"stream", "offline"}
  /\ vad \in {VadAbsent, VadFresh}
NextAppFault ==
  \/ \E fn \in StartFns : StartTask(fn)
  \/ StartShowStatus \/ StartCapture \/ RecorderStart \/ ThreadStart
  \/ StartStreamStep
  \/ StopTask \/ StopCapture \/ RecorderStop \/ Join
  \/ FinishStream \/ TranscribeBegin \/ TooShortClear \/ Transcribe
  \/ NothingClear \/ ResetTask
  \/ ProcCheck \/ ProcPull \/ ProcHandle \/ ProcHandleRaise
  \/ AudioCallback
SpecAppFault == InitAppFault /\ [][NextAppFault]_vars

\* ------------------------------------------------------------- properties

\* The longest common prefix length of D and T, by its definition: the
\* greatest p with D[0..p) = T[0..p).
LongestCommonPrefix(D, T) ==
  CHOOSE p \in 0..Min(Len(D), Len(T)) :
    /\ SubSeq(D, 1, p) = SubSeq(T, 1, p)
    /\ \A q \in (p + 1)..Min(Len(D), Len(T)) :
         SubSeq(D, 1, q) # SubSeq(T, 1, q)

\* C1: update_stream(T) on displayed text D sends exactly len(D) - p
\* backspaces, injects exactly T[p:] and leaves the displayed text equal to
\* T, p being the longest common prefix length of D and T.
C1_UpdateStreamMinimalEdit ==
  lastOp.op = "update_stream" =>
    LET D == lastOp.prev
        T == lastOp.arg
        p == LongestCommonPrefix(D, T)
    IN  /\ lastOp.bs = Len(D) - p
        /\ lastOp.ins = SubSeq(T, p + 1, Len(T))
        /\ current_content = T

\* D is a proper prefix of T ("abb" then "abba", as "今天天" then "今天天气"):
\* no backspace, only the new last character is inserted.
C1_Witness ==
  /\ lastOp.op = "update_stream"
  /\ lastOp.prev = <<"a", "b", "b">>
  /\ lastOp.arg = <<"a", "b", "b", "a">>
  /\ lastOp.bs = 0
  /\ lastOp.ins = <<"a">>
  /\ current_content = <<"a", "b", "b", "a">>

\* C2: commit_text(T) leaves the displayed text empty, for every T and every
\* text displayed before.
C2_CommitLeavesEmpty ==
  lastOp.op = "commit_text" => current_content = <<>>

\* commit_text of the very text that is displayed.
C2_Witness ==
  /\ lastOp.op = "commit_text"
  /\ lastOp.arg = lastOp.prev
  /\ lastOp.arg # <<>>
  /\ current_content = <<>>

\* C3: a second update_stream(X) right after update_stream(X) sends no
\* backspace, inserts nothing and leaves the displayed text equal to X.
C3_UpdateStreamIdempotent ==
  (lastOp.op = "update_stream" /\ lastOp.repeat) =>
    /\ lastOp.bs = 0
    /\ lastOp.ins = <<>>
    /\ current_content = lastOp.arg

\* The second of two update_stream calls with the same non-empty text.
C3_Witness ==
  /\ lastOp.op = "update_stream"
  /\ lastOp.repeat
  /\ lastOp.arg = <<"a", "b">>
  /\ lastOp.bs = 0
  /\ lastOp.ins = <<>>

\* C4: clear_temp sends exactly len(D) backspaces and leaves the displayed
\* text empty; a clear_temp, or the clear_temp inside show_status, that comes
\* right after commit_text sends no backspace.
C4_ClearTempDeletesOnlyTemp ==
  /\ lastOp.op = "clear_temp" =>
       /\ lastOp.bs = Len(lastOp.prev)
       /\ lastOp.ins = <<>>
       /\ current_content = <<>>
  /\ (lastOp.op \in {"clear_temp", "show_status"}
        /\ lastOp.prevOp = "commit_text") => lastOp.bs = 0

\* clear_temp right after the commit of a non-empty text.
C4_Witness ==
  /\ lastOp.op = "clear_temp"
  /\ lastOp.prevOp = "commit_text"
  /\ lastOp.prevText
  /\ lastOp.bs = 0

\* The clean press-hold-release is over: all keys are up and no timer is left.
CleanDone ==
  /\ scenario = "released"
  /\ \A i \in Slots : timers[i] = NoTimer

\* C5: in one press-hold-release of a registered chord the PRESS callback
\* fires exactly once (when the chord becomes fully down), whatever 'down'
\* events the OS repeats for the held keys.
C5_PressExactlyOnce ==
  /\ scenario = "pressing" => fired[key_std]["press"] = 0
  /\ scenario \in {"holding", "releasing", "released"} =>
       fired[key_std]["press"] = 1

\* A finished press-hold-release during which 'down' events were repeated.
C5_Witness ==
  /\ CleanDone
  /\ nEvents > 2 * Len(key_std)
  /\ fired[key_std]["press"] = 1

\* C6: in one press-hold-release of a registered chord the RELEASE callback
\* fires exactly once, also when several of its keys go up before the
\* release of any of them is finalized.
C6_ReleaseExactlyOnce ==
  /\ fired[key_std]["release"] <= 1
  /\ CleanDone => fired[key_std]["release"] = 1

\* C7: LONG_PRESS fires at most once per hold, only from a timer whose
\* interval elapsed while the hold that armed it was still on, and only into
\* that hold.
C7_LongPressOnlyInItsHold ==
  \A r \in lpCalls : r.inHold /\ r.sameHold /\ ~r.again

InDebounceWindow(k) ==
  /\ release_debounce_timers[k] # 0
  /\ timers[release_debounce_timers[k]].st = "armed"

C9_ReleaseOnlyWhenKeyUp ==
  \A r \in relCalls : ~r.held

\* Nothing is left to happen: every key is up and every timer has run.
Quiescent ==
  /\ phys = {}
  /\ \A i \in Slots : timers[i] = NoTimer

\* C10: once PRESS fired for a chord that was held, and the chord is
\* released and not pressed again, its RELEASE fires: when all keys are up
\* and all timers have run, no held chord is still waiting for its RELEASE.
C10_ReleaseEventuallyFires ==
  Quiescent => \A c \in Combos : awaiting[c] # "held"
\* C11: spellings of one chord that differ only in case, key order,
\* spacing or modifier alias register under the key the default spelling
\* registers under, so the table holds one key per chord registered.
C11_SpellingsRegisterIdentically ==
  /\ lastAdd.type # "none" =>
        lastAdd.norm_key = NormalizeHotkey(DefaultSpelling(lastAdd.chord))
  /\ Cardinality(DOMAIN callback_table) = Cardinality(chordsAdded)

\* C12: without a detector no feed_audio or stop_stream invokes on_partial
\* or on_final, and stop_stream returns what transcribe_offline returns for
\* the concatenation of the chunks fed in the session.
C12_DegradedEqualsOffline ==
  ~vad.loaded =>
    /\ cbLog = <<>>
    /\ lastStop.called =>
          /\ lastStop.calls = <<>>
          /\ lastStop.result =
               TranscribeOffline(Concatenate(lastStop.fed), SampleRate)
C12_Witness ==
  /\ ~vad.loaded
  /\ lastStop.called
  /\ Len(lastStop.fed) = MaxFeeds
  /\ lastStop.result = <<"a", " ", "a">>

\* A failure as claim C16 lists them: no client, a request that raised or
\* timed out, a response without content or with an empty one.
OptimizeFailed(o) ==
  \/ ~o.client
  \/ o.outcome.kind # "content"
  \/ StrStrip(o.outcome.content) = <<>>

\* C16 as stated: optimize never raises, returns the original text on any
\* failure, and otherwise returns the non-empty stripped response.
C16_OptimizeAsStated ==
  lastOpt.called =>
    /\ ~lastOpt.ret.raised
    /\ OptimizeFailed(lastOpt) => lastOpt.ret.value = lastOpt.text
    /\ ~OptimizeFailed(lastOpt) =>
          /\ lastOpt.ret.value = StrStrip(lastOpt.outcome.content)
          /\ lastOpt.ret.value # <<>>

\* C16: optimize never raises; it returns the original text on any failure
\* and also, without making a request, when the text is empty or blank;
\* otherwise it returns the non-empty stripped response.
C16_OptimizeNeverRaises ==
  lastOpt.called =>
    /\ ~lastOpt.ret.raised
    /\ (OptimizeFailed(lastOpt) \/ StrStrip(lastOpt.text) = <<>>) =>
          lastOpt.ret.value = lastOpt.text
    /\ StrStrip(lastOpt.text) = <<>> => ~lastOpt.ret.requested
    /\ (~OptimizeFailed(lastOpt) /\ StrStrip(lastOpt.text) # <<>>) =>
          /\ lastOpt.ret.value = StrStrip(lastOpt.outcome.content)
          /\ lastOpt.ret.value # <<>>
C16_Witness ==
  /\ lastOpt.called
  /\ lastOpt.client
  /\ lastOpt.text = <<"a", " ">>
  /\ lastOpt.outcome.kind = "timeout"
  /\ lastOpt.ret.value = <<"a", " ">>

\* C20: after every TextTyper operation, ended by an exception of the
\* injection or not, current_content is the text TextTyper has left on
\* screen since the last commit or clear.
C20_DisplayedTextIsOnScreen == current_content = screen

\* C13: a start callback invoked while is_running is true returns at once
\* and leaves current_task, audio_buffer, the recorder, the engine and the
\* displayed text as they are, and starts no processing thread.
C13_StartIsNoOpWhileRunning ==
  [][(nCalls' = nCalls + 1 /\ lastCall'.fn \in StartFns /\ is_running) =>
       /\ call' = NoCall
       /\ UNCHANGED <<current_task, audio_buffer, is_recording, audio_queue,
                      vad, buffer, started, current_content, screen, proc,
                      nThreads>>]_vars
C13_Witness ==
  /\ lastCall = [fn |-> "start_llm_recording_task", noop |-> TRUE]
  /\ is_running
  /\ current_task = "std"
  /\ proc.pc = "handle"

\* The chunk the processing thread has pulled and not yet handled.
InHand == IF proc.pc = "handle" THEN <<proc.chunk>> ELSE <<>>

\* C14: from start_llm_recording_task until the matching stop_any_task has
\* completed, neither start_stream nor feed_audio is called, no engine
\* callback edits the displayed text, and the chunks pulled are the chunks
\* in audio_buffer (with the one in hand), in the order pulled.
C14_LlmSessionIsOffline ==
  session.task = "llm" =>
    /\ session.engineOps \cap {"start_stream", "feed_audio"} = {}
    /\ session.edits = 0
    /\ fedLog = <<>> /\ cbLog = <<>>
    /\ session.active => audio_buffer \o InHand = session.pulled
C14_Witness ==
  /\ session.task = "llm"
  /\ default_mode = "stream"
  /\ vad.loaded
  /\ call.pc = "reset"
  /\ Len(session.pulled) = MaxChunks
  /\ lastOp.op = "commit_text"

\* stop_any_task has ended the session and is about to return.
StopDone == call.pc = "reset"

\* The streaming part of C15: the text stop_stream returned is committed
\* when non-empty, clear_temp is called otherwise.
StreamingEnd ==
  /\ lastStop.called
  /\ lastStop.result # <<>> =>
        lastOp.op = "commit_text" /\ lastOp.arg = lastStop.result
  /\ lastStop.result = <<>> => lastOp.op = "clear_temp"

\* The text an offline or LLM session commits: transcribe_offline of the
\* buffered chunks, passed through optimize for the LLM task only.
OfflineCommit ==
  LET text == TranscribeOffline(Concatenate(lastEnd.audio), SampleRate)
  IN  /\ "transcribe_offline" \in session.engineOps
      /\ lastEnd.audio = session.pulled
      /\ lastOp.op = "commit_text"
      /\ IF lastEnd.task = "llm"
         THEN /\ lastOpt.called /\ lastOpt.text = text
              /\ lastOp.arg = lastOpt.ret.value
         ELSE ~lastOpt.called /\ lastOp.arg = text

\* C15 as stated: every offline or LLM session ends with the commit.
C15_StopAsStated ==
  StopDone =>
    IF lastEnd.task = "std" /\ default_mode = "stream"
    THEN StreamingEnd
    ELSE OfflineCommit

\* C15: a streaming session ends as stated; an offline or LLM session ends
\* with the commit when a chunk was buffered, the recognizer did not raise
\* and the recognized text is not empty, and otherwise commits nothing and
\* clears what it displayed.
C15_StopEndsSession ==
  StopDone =>
    IF lastEnd.task = "std" /\ default_mode = "stream"
    THEN StreamingEnd
    ELSE IF /\ lastEnd.audio # <<>>
            /\ lastEnd.path # "exception"
            /\ TranscribeOffline(Concatenate(lastEnd.audio), SampleRate) # <<>>
         THEN OfflineCommit
         ELSE /\ lastOp.op = "clear_temp"
              /\ lastEnd.audio = session.pulled
              /\ ~lastOpt.called
              /\ lastEnd.audio = <<>> =>
                    "transcribe_offline" \notin session.engineOps
C15_Witness ==
  /\ StopDone
  /\ lastEnd.task = "llm"
  /\ Len(lastEnd.audio) = MaxChunks
  /\ lastOpt.ret.value = <<"b">>
  /\ lastOp.arg = <<"b">>

\* C17: when a PRESS, LONG_PRESS or RELEASE callback raises, the handler
\* leaves pressed_keys and the timer tables (with the timers themselves)
\* exactly as it leaves them when the callback returns; the key is in
\* pressed_keys, or out of it, before the callback is invoked.
C17_RaisingCallbackLeavesState ==
  [][raised'.n = raised.n + 1 =>
       CASE raised'.phase = "press" ->
              /\ raised'.key \in pressed_keys'
              /\ PressNewKeyProg(raised'.key, FALSE)
         [] raised'.phase = "release" ->
              /\ raised'.key \notin pressed_keys'
              /\ FinalizeReleaseProg(raised'.slot)
         [] raised'.phase = "long_press" ->
              TriggerLongPressProg(raised'.slot, FALSE)]_vars
C17_Witness ==
  /\ raised = [n |-> 1, phase |-> "press", key |-> "f2", slot |-> 0]
  /\ fired[key_std]["press"] = 1
  /\ pressed_keys = Range(key_std)
  /\ long_press_timers[key_std] # 0
  /\ timers[long_press_timers[key_std]].st = "armed"

\* C18: the step that delivers a key event, run by the hook thread in
\* _on_keyboard_event, invokes no callback.
C18_HookThreadRunsNoCallback ==
  [][nEvents' = nEvents + 1 => fired' = fired]_vars

\* C19: once stop_listening has returned, no callback is invoked.
C19_NoCallbackAfterStop ==
  [][~is_listening => fired' = fired]_vars

\* The clipboard attempts of the last call that raised.
FailedAttempts ==
  {i \in 1..lastPaste.ret.attempts : lastPaste.outcomes[i] = "raise"}

\* The retries of _paste_with_retry are bounded: at most `retries`
\* attempts, none after the first that succeeds, and keyboard.write once,
\* only when every attempt failed.
PasteBounded ==
  lastPaste.called =>
    LET r == lastPaste.ret
    IN  /\ r.attempts \in 1..retries
        /\ \A i \in 1..(r.attempts - 1) : lastPaste.outcomes[i] = "raise"
        /\ r.writes = IF FailedAttempts = 1..retries THEN 1 ELSE 0
        /\ r.writes = 0 => lastPaste.outcomes[r.attempts] = "ok"

\* C21: the retries are bounded as above and the text is injected exactly
\* once.
C21_PasteBoundedAndInjectedOnce ==
  /\ PasteBounded
  /\ lastPaste.called => lastPaste.ret.did = <<lastPaste.text>>

\* The session is a streaming one: the standard task in stream mode.
Streaming == session.task = "std" /\ default_mode = "stream"

\* C22: in a streaming session feed_audio is called only after start_stream
\* was, so the reset of start_stream wipes no chunk fed in the session.
C22_StartStreamBeforeFeed ==
  Streaming =>
    /\ "feed_audio" \in session.engineOps =>
          "start_stream" \in session.engineOps
    /\ ~vad.loaded /\ call.pc # "reset" /\ session.active =>
          buffer = Concatenate(session.fed)

\* C23: the processing thread is never at its feed_audio call while the
\* thread of a hotkey callback is at an engine call of its own.
C23_EngineCallsNotConcurrent ==
  ~ /\ proc.pc = "handle" /\ Streaming
    /\ \/ call.pc = "start_stream"
       \/ call.pc = "finish"
       \/ call.pc = "transcribe"

\* C24: the queue is empty when stop_any_task obtains the final text from
\* stop_stream or transcribe_offline.
C24_QueueDrainedAtStop ==
  call.pc \in {"finish", "transcribe"} => audio_queue = <<>>

\* What the processing thread did with the chunks it pulled.
Handled == IF Streaming THEN session.fed ELSE audio_buffer

\* C25: every chunk the processing thread pulled is fed (streaming) or
\* appended to audio_buffer (offline, LLM), in the order pulled, the one
\* in hand included once the thread has handled it, also when
\* stop_any_task cleared is_running in between.
C25_PulledChunksAreHandled ==
  session.active =>
    /\ Handled \o InHand = session.pulled
    /\ proc.pc = "dead" => Handled = session.pulled
C25_Witness ==
  /\ call.pc = "join"
  /\ ~is_running
  /\ proc.pc = "handle"
  /\ Len(session.pulled) = MaxChunks

\* The statements of the hotkey callbacks that call TextTyper.
TyperPcs == {"show_status", "finish", "too_short", "transcribe", "nothing"}

\* C26: while a hotkey callback is at a TextTyper call no processing
\* thread is alive to call TextTyper from an engine callback, and there is
\* never more than one processing thread.
C26_TyperCallsNotConcurrent ==
  /\ call.pc \in TyperPcs => proc.pc \in {"absent", "dead"} /\ nThreads = 0
  /\ nThreads <= 1
C26_Witness ==
  /\ call.pc = "finish"
  /\ Streaming
  /\ session.edits > 0
  /\ proc.pc = "dead"
  /\ current_content # <<>>

\* stop_any_task ran for a session and has returned, or is at its last
\* statement.
StopCompleted ==
  \/ StopDone
  \/ call = NoCall /\ lastCall = [fn |-> "stop_any_task", noop |-> FALSE]

\* C27: once stop_any_task has completed for a session, whatever branch it
\* took, the displayed text is empty and none of the text TextTyper put on
\* screen is left uncommitted.
C27_NoStaleTextAfterStop ==
  StopCompleted => current_content = <<>> /\ screen = <<>>
C27_Witness ==
  /\ call = NoCall
  /\ lastCall = [fn |-> "stop_any_task", noop |-> FALSE]
  /\ lastEnd.path = "nothing"
  /\ lastOp.op = "clear_temp"
  /\ lastOp.bs > 0

\* C28: LONG_PRESS is never invoked by the timer of a hold for which
\* RELEASE has already been invoked.
C28_LongPressNotAfterRelease ==
  \A r \in lpCalls : ~r.afterRelease

\* C29: when all keys are up and every timer has run, every chord is idle:
\* each PRESS it received was followed by its RELEASE, also when another
\* key went down during the hold.
C29_AllIdleWhenQuiescent ==
  Quiescent => \A c \in Combos : awaiting[c] = "idle"

\* C30: an exception of the decode inside feed_audio does not end the
\* processing thread.
C30_DecodeFailureKeepsThread == proc.pc # "crashed"

\* The callbacks a step of the engine added to the log.
NewCalls == SubSeq(cbLog', Len(cbLog) + 1, Len(cbLog'))
IsFinal(c) == c.cb = "final"
IsPartial(c) == c.cb = "partial"
NonEmpty(text) == text # <<>>
\* The texts of the segments, each decoded on its own, the empty ones left
\* out.
SegmentTexts(segments) ==
  SelectSeq([i \in DOMAIN segments |->
               StrStrip(DecodeStream(SampleRate, segments[i]))], NonEmpty)
FinalTexts(calls) ==
  LET finals == SelectSeq(calls, IsFinal)
  IN  [i \in DOMAIN finals |-> finals[i].text]

\* C31: with a detector, a feed_audio call during which the detector
\* completes segments invokes on_final with the text of each segment
\* decoded alone (when not empty), invokes no on_partial after an on_final,
\* and returns with the rolling buffer empty and started false; a call
\* that finds started false invokes on_partial only if the detector
\* reports speech when it returns.
C31_FinalEndsUtterance ==
  [][\A samples \in Chunks :
       (vad.loaded /\ fedLog' = Append(fedLog, samples)) =>
         LET segments == VadAcceptWaveform(vad, samples).queue
         IN  /\ segments # <<>> =>
                  /\ FinalTexts(NewCalls) = SegmentTexts(segments)
                  /\ \A i, j \in DOMAIN NewCalls :
                       IsFinal(NewCalls[i]) /\ IsPartial(NewCalls[j]) => j < i
                  /\ buffer' = <<>>
                  /\ started' = FALSE
             /\ (~started /\ \E i \in DOMAIN NewCalls : IsPartial(NewCalls[i]))
                  => IsSpeechDetected(vad')]_vars
C31_Witness ==
  /\ vad.loaded
  /\ Len(cbLog) >= 3
  /\ IsPartial(cbLog[Len(cbLog) - 2])
  /\ IsPartial(cbLog[Len(cbLog) - 1])
  /\ IsFinal(cbLog[Len(cbLog)])
  /\ buffer = <<>>
  /\ ~started
  /\ Len(fedLog) = 2

\* C32: with a detector, whenever started is false the rolling buffer holds
\* at most max_len samples, however many chunks of whatever size were fed;
\* it is longer only while speech is in progress.
C32_BufferCappedBeforeSpeech ==
  (vad.loaded /\ ~started) => Len(buffer) <= max_len
C32_Witness ==
  /\ vad.loaded
  /\ ~started
  /\ Len(fedLog) = MaxFeeds
  /\ Len(Concatenate(fedLog)) > max_len + 1
  /\ Len(buffer) = max_len
  /\ buffer = SubSeq(Concatenate(fedLog),
                     Len(Concatenate(fedLog)) - max_len + 1,
                     Len(Concatenate(fedLog)))

\* C33: with a detector, stop_stream returns the text decoded from the
\* rolling buffer when a segment is in progress (started and a non-empty
\* buffer) and the empty string otherwise; with or without a detector the
\* buffer is empty and started is false when it returns.
C33_StopFlushesAndResets ==
  [][lastStop'.called =>
       /\ vad.loaded =>
            lastStop'.result =
              IF started /\ buffer # <<>>
              THEN StrStrip(DecodeStream(SampleRate, buffer)) ELSE <<>>
       /\ buffer' = <<>>
       /\ started' = FALSE]_vars
C33_Witness ==
  /\ vad.loaded
  /\ lastStop.called
  /\ lastStop.result = <<"a">>
  /\ Len(lastStop.fed) = MaxFeeds
  /\ \E i \in DOMAIN lastStop.calls : IsFinal(lastStop.calls[i])
  /\ buffer = <<>>
  /\ ~started

\* s is an initial part of t.
IsPrefix(s, t) == Len(s) <= Len(t) /\ s = SubSeq(t, 1, Len(s))

\* C34: get_audio_chunk never blocks; in a session, once the recorder was
\* started, the chunks captured are the chunks get_audio_chunk returned
\* followed by the chunks still queued, so none is returned twice or out
\* of order, and the chunks fed or appended to audio_buffer are an initial
\* part of the capture order.
C34_ChunksConsumedOnceInOrder ==
  /\ proc.pc = "pull" => ENABLED ProcPull
  /\ (session.active /\ call.pc # "recorder_start") =>
       /\ session.captured = session.pulled \o audio_queue
       /\ IsPrefix(Handled, session.captured)
C34_Witness ==
  /\ session.active
  /\ Len(session.captured) = MaxChunks
  /\ session.captured[1] # session.captured[2]
  /\ Handled = session.captured
  /\ audio_queue = <<>>
  /\ proc.pc = "pull"

\* pressed_keys and the timer tables.
Tables == <<pressed_keys, long_press_timers, long_press_triggered,
            release_debounce_timers>>

\* The step is one of the thread that holds the lock: the lock is free
\* before and after (held for the step), or the timer thread holding it
\* runs its function.
ByLockHolder ==
  /\ lock' = lock
  /\ lock # 0 => timers[lock].st = "running" /\ timers'[lock].st # "running"

\* C36: a hotkey callback is invoked, and pressed_keys and the timer tables
\* are modified, only by the thread that holds the hotkey lock.
C36_CallbacksAndTablesUnderLock ==
  [][(fired' # fired \/ Tables' # Tables) => ByLockHolder]_vars

\* C37: RELEASE is invoked for a chord only when its PRESS was invoked
\* since its last RELEASE, whatever the key events.
C37_ReleaseOnlyAfterPress ==
  [][\A c \in Combos :
       fired'[c]["release"] # fired[c]["release"] => awaiting[c] # "idle"]_vars

\* The processing thread runs _process_loop.
ThreadAlive == proc.pc \in {"check", "pull", "handle"}

\* C38: never more than one processing thread is alive; one is alive only
\* in the session begun by the start callback that created it, and none
\* once the stop_any_task of that session has returned.
C38_OneThreadWithinSession ==
  /\ nThreads = IF ThreadAlive THEN 1 ELSE 0
  /\ ThreadAlive => session.active /\ session.task = current_task
  /\ (call = NoCall /\ ~is_running) => ~ThreadAlive
C38_Witness ==
  /\ call = NoCall
  /\ lastCall = [fn |-> "stop_any_task", noop |-> FALSE]
  /\ nCalls = MaxCalls
  /\ proc.pc = "dead"
  /\ lastEnd.task = "llm"

\* C39: in a session, once AudioRecorder.start() has returned, the chunks
\* get_audio_chunk returned are chunks the audio callback enqueued after
\* that start; what an earlier session left in the queue was discarded by
\* start(), so the thread starts on a queue holding this session's chunks
\* only.
C39_NoAudioAcrossSessions ==
  (session.active /\ call.pc # "recorder_start") =>
    /\ IsPrefix(session.pulled, session.captured)
    /\ call.pc = "thread_start" => audio_queue = session.captured
C39_Witness ==
  /\ session.active
  /\ session.discarded = <<"v">>
  /\ session.pulled = <<"-">>
  /\ Handled = <<"-">>
  /\ audio_queue = <<>>

\* stop_any_task has cleared is_running and not yet returned.
Stopping == call.fn = "stop_any_task" /\ call.pc # "stop_capture"
Idle == call = NoCall /\ ~is_running /\ current_task = "none"

\* C35: once stop_any_task has cleared is_running, the processing thread
\* pulls at most one chunk more, the one of the loop pass it is in, and
\* then ends; the join returns and stop_any_task reaches the idle state.
C35_DrainLoopTerminates ==
  /\ [](session.late <= 1)
  /\ [](Stopping /\ call.pc \notin {"recorder_stop", "join"} => ~ThreadAlive)
  /\ (Stopping ~> Idle)
C35_Witness ==
  /\ Idle
  /\ lastCall = [fn |-> "stop_any_task", noop |-> FALSE]
  /\ proc.pc = "dead"
  /\ lastEnd.late = 1
  /\ Len(lastEnd.pulled) = MaxLiveChunks

====
